---- MODULE Spec2Model ----
(***************************************************************************)
(* Subscription service: the subscriptions table, the pgx repository, the  *)
(* business-rule service and the HTTP handlers, as state machines.         *)
(*                                                                         *)
(* Representation                                                          *)
(*   uuid.UUID      a natural number, uuid.Nil is 0                        *)
(*   time.Time      a calendar day, numbered (year*12 + month-1)*31 + day-1*)
(*                  (the DATE columns keep exactly this granularity)       *)
(*   *T (pointer)   <<>> for nil / SQL NULL, <<v>> for a present value     *)
(*   error          a string, "" for nil                                   *)
(*   timestamps     ticks of the database clock, the zero time.Time is 0   *)
(***************************************************************************)
EXTENDS Integers, Sequences, FiniteSets, TLC

VARIABLES subscriptions, issued, now, last, deleted, submitted, inflight

vars == <<subscriptions, issued, now, last, deleted, submitted, inflight>>

(***************************************************************************)
(* Bound of the model: the ids gen_random_uuid() can hand out.             *)
(***************************************************************************)
MaxIds == 2

(***************************************************************************)
(* Values of the program.                                                  *)
(***************************************************************************)
Nil == 0
NULL == <<>>
Some(v) == <<v>>
NoError == ""
ErrNotFound == "subscription not found"
ErrInvalidPeriod == "invalid aggregation period"
ErrPrice == "price must be >= 0"
ErrDateRange == "end_date cannot be before start_date"
ErrCheckViolation == "violates check constraint subscriptions_price_check"
ErrConn == "failed to connect to database"
ErrTimeout == "context deadline exceeded"
DefaultLimit == 20

(***************************************************************************)
(* time.Date(y, m, d, 0, 0, 0, 0, time.UTC) and the accessors of time.Time *)
(***************************************************************************)
Date(y, m, d) == (y * 12 + (m - 1)) * 31 + (d - 1)
YearOf(t) == t \div 372
MonthOf(t) == ((t \div 31) % 12) + 1
DayOf(t) == (t % 31) + 1
Before(t, u) == t < u
After_MonthOnly(t, u) == (t \div 31) > (u \div 31)
After(t, u) == t > u

(***************************************************************************)
(* Values the inputs are drawn from.                                       *)
(***************************************************************************)
Jan == Date(2025, 1, 1)
Feb == Date(2025, 2, 1)
Mar == Date(2025, 3, 1)
Ids == 1 .. MaxIds
AnyIds == {Nil} \cup Ids
Users == {1, 2}
ServiceNames == {"Yandex", "Google"}
Prices == {-1, 0, 2}
Months == {Jan, Feb, Mar}
Days == Months \cup {Date(2025, 1, 31)}
OptMonths == {NULL} \cup {Some(d) : d \in Months}
OptUsers == {NULL} \cup {Some(u) : u \in Users}
OptNames == {NULL} \cup {Some(n) : n \in ServiceNames}
Limits == {-1, 0, 1, 25, 1000}
Offsets == {-1, 0, 1}
DbErrs == {NoError, ErrConn}

(* model.Subscription as the callers of the service build it: ID and the   *)
(* timestamps are the zero values unless the caller sets the ID.           *)
Subscription(id, user, name, price, start, end) ==
    [ID |-> id, UserID |-> user, ServiceName |-> name, Price |-> price,
     StartDate |-> start, EndDate |-> end, CreatedAt |-> 0, UpdatedAt |-> 0]

(***************************************************************************)
(* The subscriptions table.                                                *)
(***************************************************************************)
RowIds(rows) == {r.id : r \in rows}
RowOf(rows, id) == CHOOSE r \in rows : r.id = id

(* An INSERT that binds no end_date.                                       *)
ToRow_NoEndDate(sub, id, ts) ==
    [id |-> id, user_id |-> sub.UserID, service_name |-> sub.ServiceName,
     price |-> sub.Price, start_date |-> sub.StartDate,
     end_date |-> NULL, created_at |-> ts, updated_at |-> ts]

ToRow(sub, id, ts) ==
    [id |-> id, user_id |-> sub.UserID, service_name |-> sub.ServiceName,
     price |-> sub.Price, start_date |-> sub.StartDate,
     end_date |-> sub.EndDate, created_at |-> ts, updated_at |-> ts]

Scan(r) ==
    [ID |-> r.id, UserID |-> r.user_id, ServiceName |-> r.service_name,
     Price |-> r.price, StartDate |-> r.start_date, EndDate |-> r.end_date,
     CreatedAt |-> r.created_at, UpdatedAt |-> r.updated_at]

(* WHERE ($1::uuid IS NULL OR user_id = $1) AND ($2::text IS NULL OR       *)
(* service_name = $2)                                                      *)
MatchesFilter(r, userID, serviceName) ==
    /\ (userID = NULL \/ r.user_id = userID[1])
    /\ (serviceName = NULL \/ r.service_name = serviceName[1])

(* An overlap test that drops a subscription ending on the first day of    *)
(* the range.                                                              *)
ActiveDuring_EndAfterFrom(r, from, to) ==
    /\ r.start_date <= to
    /\ (r.end_date = NULL \/ r.end_date[1] > from)

(* AND start_date <= $4 AND (end_date IS NULL OR end_date >= $3)           *)
ActiveDuring(r, from, to) ==
    /\ r.start_date <= to
    /\ (r.end_date = NULL \/ r.end_date[1] >= from)

RECURSIVE SumPrice(_)
SumPrice(rows) ==
    IF rows = {} THEN 0
    ELSE LET r == CHOOSE x \in rows : TRUE
         IN r.price + SumPrice(rows \ {r})

(***************************************************************************)
(* Repository: one SQL statement per method.  dbErr is the error of the    *)
(* pool for this round trip ("" when the statement is executed); a failed  *)
(* round trip leaves the table as it was.                                  *)
(***************************************************************************)
RepoResult(err, out, rows) == [err |-> err, out |-> out, rows |-> rows]

(* An INSERT that binds the id the caller carries, when it carries one.    *)
subscriptionRepo_Create_KeepsInputId(rows, sub, id, ts, dbErr) ==
    IF dbErr # NoError THEN RepoResult(dbErr, sub, rows)
    ELSE IF sub.Price < 0 THEN RepoResult(ErrCheckViolation, sub, rows)
    ELSE LET own == IF sub.ID = 0 THEN id ELSE sub.ID
         IN RepoResult(NoError,
                       [sub EXCEPT !.ID = own, !.CreatedAt = ts, !.UpdatedAt = ts],
                       {r \in rows : r.id # own} \cup
                       {[id |-> own, user_id |-> sub.UserID,
                         service_name |-> sub.ServiceName, price |-> sub.Price,
                         start_date |-> sub.StartDate, end_date |-> sub.EndDate,
                         created_at |-> ts, updated_at |-> ts]})

(* INSERT ... RETURNING id, created_at, updated_at; id is the column       *)
(* default gen_random_uuid(), ts the column default now().                 *)
subscriptionRepo_Create(rows, sub, id, ts, dbErr) ==
    IF dbErr # NoError THEN RepoResult(dbErr, sub, rows)
    ELSE IF sub.Price < 0 THEN RepoResult(ErrCheckViolation, sub, rows)
    ELSE RepoResult(NoError,
                    [sub EXCEPT !.ID = id, !.CreatedAt = ts, !.UpdatedAt = ts],
                    rows \cup {ToRow(sub, id, ts)})

(* A SELECT that also stamps the row it reads as touched.                  *)
subscriptionRepo_GetByID_Touches(rows, id, dbErr) ==
    IF dbErr # NoError THEN RepoResult(dbErr, NULL, rows)
    ELSE IF id \notin RowIds(rows) THEN RepoResult(ErrNotFound, NULL, rows)
    ELSE LET r == RowOf(rows, id)
         IN RepoResult(NoError, Some(Scan(r)),
                       (rows \ {r}) \cup {[r EXCEPT !.updated_at = @ + 1]})

(* SELECT ... WHERE id = $1                                                *)
subscriptionRepo_GetByID(rows, id, dbErr) ==
    IF dbErr # NoError THEN RepoResult(dbErr, NULL, rows)
    ELSE IF id \notin RowIds(rows) THEN RepoResult(ErrNotFound, NULL, rows)
    ELSE RepoResult(NoError, Some(Scan(RowOf(rows, id))), rows)

(* An UPDATE with end_date = COALESCE($4, end_date).                       *)
UpdatedRow_KeepsEndDate(r, sub, ts) ==
    [r EXCEPT !.service_name = sub.ServiceName, !.price = sub.Price,
              !.start_date = sub.StartDate,
              !.end_date = IF sub.EndDate = NULL THEN @ ELSE sub.EndDate,
              !.updated_at = ts]

(* An UPDATE that also sets created_at = now().                            *)
UpdatedRow_ResetsCreatedAt(r, sub, ts) ==
    [r EXCEPT !.service_name = sub.ServiceName, !.price = sub.Price,
              !.start_date = sub.StartDate, !.end_date = sub.EndDate,
              !.created_at = ts, !.updated_at = ts]

(* An UPDATE that also sets user_id = the user_id of the request.          *)
UpdatedRow_SetsUserId(r, sub, ts) ==
    [r EXCEPT !.service_name = sub.ServiceName, !.price = sub.Price,
              !.start_date = sub.StartDate, !.end_date = sub.EndDate,
              !.user_id = sub.UserID, !.updated_at = ts]

(* UPDATE ... SET service_name, price, start_date, end_date,               *)
(* updated_at = now() WHERE id = $5                                        *)
UpdatedRow(r, sub, ts) ==
    [r EXCEPT !.service_name = sub.ServiceName, !.price = sub.Price,
              !.start_date = sub.StartDate, !.end_date = sub.EndDate,
              !.updated_at = ts]

(* An Update that inserts the row when no row has the id.                  *)
subscriptionRepo_Update_Upsert(rows, sub, ts, dbErr) ==
    IF dbErr # NoError THEN RepoResult(dbErr, NULL, rows)
    ELSE IF sub.Price < 0 THEN RepoResult(ErrCheckViolation, NULL, rows)
    ELSE IF sub.ID \notin RowIds(rows)
         THEN RepoResult(NoError, NULL, rows \cup {ToRow(sub, sub.ID, ts)})
    ELSE LET r == RowOf(rows, sub.ID)
         IN RepoResult(NoError, NULL, (rows \ {r}) \cup {UpdatedRow(r, sub, ts)})

(* An Update that does not look at the number of rows affected.            *)
subscriptionRepo_Update_IgnoresRowsAffected(rows, sub, ts, dbErr) ==
    IF dbErr # NoError THEN RepoResult(dbErr, NULL, rows)
    ELSE IF sub.ID \notin RowIds(rows) THEN RepoResult(NoError, NULL, rows)
    ELSE IF sub.Price < 0 THEN RepoResult(ErrCheckViolation, NULL, rows)
    ELSE LET r == RowOf(rows, sub.ID)
         IN RepoResult(NoError, NULL, (rows \ {r}) \cup {UpdatedRow(r, sub, ts)})

subscriptionRepo_Update(rows, sub, ts, dbErr) ==
    IF dbErr # NoError THEN RepoResult(dbErr, NULL, rows)
    ELSE IF sub.ID \notin RowIds(rows) THEN RepoResult(ErrNotFound, NULL, rows)
    ELSE IF sub.Price < 0 THEN RepoResult(ErrCheckViolation, NULL, rows)
    ELSE LET r == RowOf(rows, sub.ID)
         IN RepoResult(NoError, NULL, (rows \ {r}) \cup {UpdatedRow(r, sub, ts)})

(* A Delete that reports success and leaves the row in the table.          *)
subscriptionRepo_Delete_KeepsRow(rows, id, dbErr) ==
    IF dbErr # NoError THEN RepoResult(dbErr, NULL, rows)
    ELSE IF id \notin RowIds(rows) THEN RepoResult(ErrNotFound, NULL, rows)
    ELSE RepoResult(NoError, NULL, rows)

(* DELETE FROM subscriptions WHERE id = $1                                 *)
subscriptionRepo_Delete(rows, id, dbErr) ==
    IF dbErr # NoError THEN RepoResult(dbErr, NULL, rows)
    ELSE IF id \notin RowIds(rows) THEN RepoResult(ErrNotFound, NULL, rows)
    ELSE RepoResult(NoError, NULL, {r \in rows : r.id # id})

(* ORDER BY created_at ASC.                                                *)
OrderByCreatedAtDesc_Ascending(rows) ==
    {s \in [1 .. Cardinality(rows) -> rows] :
        /\ \A i, j \in DOMAIN s : i # j => s[i] # s[j]
        /\ \A i, j \in DOMAIN s : i < j => s[i].created_at <= s[j].created_at}

(* ORDER BY created_at DESC: every arrangement of the matching rows in     *)
(* which created_at never increases (rows with equal created_at come in    *)
(* any order).                                                             *)
OrderByCreatedAtDesc(rows) ==
    {s \in [1 .. Cardinality(rows) -> rows] :
        /\ \A i, j \in DOMAIN s : i # j => s[i] # s[j]
        /\ \A i, j \in DOMAIN s : i < j => s[i].created_at >= s[j].created_at}

Min(a, b) == IF a < b THEN a ELSE b

ListOrders(rows, userID, serviceName) ==
    OrderByCreatedAtDesc({r \in rows : MatchesFilter(r, userID, serviceName)})

(* SELECT ... WHERE filter ORDER BY created_at DESC LIMIT $3 OFFSET $4;    *)
(* ordered is the arrangement the database chose, one of ListOrders.       *)
subscriptionRepo_List(rows, userID, serviceName, limit, offset, ordered, dbErr) ==
    IF dbErr # NoError THEN RepoResult(dbErr, <<>>, rows)
    ELSE IF limit < 0 \/ offset < 0
         THEN RepoResult("LIMIT and OFFSET must not be negative", <<>>, rows)
    ELSE RepoResult(NoError,
                    [i \in 1 .. (Min(Len(ordered), offset + limit) - Min(Len(ordered), offset))
                        |-> Scan(ordered[offset + i])],
                    rows)

(* A total that adds the price of a subscription once for every month of   *)
(* the range it is active in.                                              *)
subscriptionRepo_AggregateCost_PerMonth(rows, userID, serviceName, from, to, dbErr) ==
    IF dbErr # NoError THEN RepoResult(dbErr, 0, rows)
    ELSE LET active(r, m) == /\ m <= to /\ m + 30 >= from
                             /\ r.start_date <= m + 30
                             /\ (r.end_date = NULL \/ r.end_date[1] >= m)
             billed(r) == [r EXCEPT !.price =
                              r.price * Cardinality({m \in Months : active(r, m)})]
         IN RepoResult(NoError,
                       SumPrice({billed(r) : r \in
                                    {x \in rows : /\ MatchesFilter(x, userID, serviceName)
                                                  /\ ActiveDuring(x, from, to)}}),
                       rows)

(* SELECT COALESCE(SUM(price), 0) ... WHERE filter AND overlap             *)
subscriptionRepo_AggregateCost(rows, userID, serviceName, from, to, dbErr) ==
    IF dbErr # NoError THEN RepoResult(dbErr, 0, rows)
    ELSE RepoResult(NoError,
                    SumPrice({r \in rows : /\ MatchesFilter(r, userID, serviceName)
                                           /\ ActiveDuring(r, from, to)}),
                    rows)

(***************************************************************************)
(* Service: the business-rule gate in front of the repository.  calls is   *)
(* the sequence of repository invocations the method issued.               *)
(***************************************************************************)
SvcResult(err, out, rows, calls) ==
    [err |-> err, out |-> out, rows |-> rows, calls |-> calls]

FromRepo(res, call) == SvcResult(res.err, res.out, res.rows, <<call>>)

(* A Create whose gate also refuses an end_date equal to start_date.       *)
subscriptionService_Create_RejectsEqualDates(rows, sub, id, ts, dbErr) ==
    IF sub.Price < 0 THEN SvcResult(ErrPrice, sub, rows, <<>>)
    ELSE IF sub.EndDate # NULL /\ ~After(sub.EndDate[1], sub.StartDate)
         THEN SvcResult(ErrDateRange, sub, rows, <<>>)
    ELSE FromRepo(subscriptionRepo_Create(rows, sub, id, ts, dbErr),
                  [fn |-> "Create", sub |-> sub])

subscriptionService_Create(rows, sub, id, ts, dbErr) ==
    IF sub.Price < 0 THEN SvcResult(ErrPrice, sub, rows, <<>>)
    ELSE IF sub.EndDate # NULL /\ Before(sub.EndDate[1], sub.StartDate)
         THEN SvcResult(ErrDateRange, sub, rows, <<>>)
    ELSE FromRepo(subscriptionRepo_Create(rows, sub, id, ts, dbErr),
                  [fn |-> "Create", sub |-> sub])

(* A Get that calls the repository a second time when the first call      *)
(* failed.                                                                 *)
subscriptionService_Get_Retries(rows, id, dbErr) ==
    LET res == subscriptionRepo_GetByID(rows, id, dbErr)
        call == [fn |-> "GetByID", id |-> id]
    IN IF res.err \in {NoError, ErrNotFound} THEN FromRepo(res, call)
       ELSE SvcResult(res.err, res.out, res.rows, <<call, call>>)

subscriptionService_Get(rows, id, dbErr) ==
    FromRepo(subscriptionRepo_GetByID(rows, id, dbErr),
             [fn |-> "GetByID", id |-> id])

(* An Update without the price rule.                                       *)
subscriptionService_Update_NoPriceGate(rows, sub, ts, dbErr) ==
    IF sub.EndDate # NULL /\ Before(sub.EndDate[1], sub.StartDate)
    THEN SvcResult(ErrDateRange, NULL, rows, <<>>)
    ELSE FromRepo(subscriptionRepo_Update(rows, sub, ts, dbErr),
                  [fn |-> "Update", sub |-> sub])

(* An Update without the date-range rule.                                  *)
subscriptionService_Update_NoDateGate(rows, sub, ts, dbErr) ==
    IF sub.Price < 0 THEN SvcResult(ErrPrice, NULL, rows, <<>>)
    ELSE FromRepo(subscriptionRepo_Update(rows, sub, ts, dbErr),
                  [fn |-> "Update", sub |-> sub])

subscriptionService_Update(rows, sub, ts, dbErr) ==
    IF sub.Price < 0 THEN SvcResult(ErrPrice, NULL, rows, <<>>)
    ELSE IF sub.EndDate # NULL /\ Before(sub.EndDate[1], sub.StartDate)
         THEN SvcResult(ErrDateRange, NULL, rows, <<>>)
    ELSE FromRepo(subscriptionRepo_Update(rows, sub, ts, dbErr),
                  [fn |-> "Update", sub |-> sub])

subscriptionService_Delete(rows, id, dbErr) ==
    FromRepo(subscriptionRepo_Delete(rows, id, dbErr),
             [fn |-> "Delete", id |-> id])

(* A default that applies to negative limits only.                        *)
NormLimit_ZeroPasses(limit) == IF limit < 0 THEN DefaultLimit ELSE limit
NormLimit(limit) == IF limit <= 0 THEN DefaultLimit ELSE limit
NormOffset(offset) == IF offset < 0 THEN 0 ELSE offset

subscriptionService_List(rows, userID, serviceName, limit, offset, ordered, dbErr) ==
    FromRepo(subscriptionRepo_List(rows, userID, serviceName,
                                   NormLimit(limit), NormOffset(offset),
                                   ordered, dbErr),
             [fn |-> "List", userID |-> userID, serviceName |-> serviceName,
              limit |-> NormLimit(limit), offset |-> NormOffset(offset)])

(* An Aggregate whose gate also refuses a period of one month.             *)
subscriptionService_Aggregate_RejectsEqual(rows, userID, serviceName, from, to, dbErr) ==
    IF ~Before(from, to) THEN SvcResult(ErrInvalidPeriod, 0, rows, <<>>)
    ELSE LET res == subscriptionRepo_AggregateCost(rows, userID, serviceName,
                                                   from, to, dbErr)
         IN SvcResult(res.err, IF res.err # NoError THEN 0 ELSE res.out,
                      res.rows,
                      <<[fn |-> "AggregateCost", userID |-> userID,
                         serviceName |-> serviceName, from |-> from, to |-> to]>>)

subscriptionService_Aggregate(rows, userID, serviceName, from, to, dbErr) ==
    IF After(from, to) THEN SvcResult(ErrInvalidPeriod, 0, rows, <<>>)
    ELSE LET res == subscriptionRepo_AggregateCost(rows, userID, serviceName,
                                                   from, to, dbErr)
         IN SvcResult(res.err, IF res.err # NoError THEN 0 ELSE res.out,
                      res.rows,
                      <<[fn |-> "AggregateCost", userID |-> userID,
                         serviceName |-> serviceName, from |-> from, to |-> to]>>)

(***************************************************************************)
(* Strings of the HTTP layer are sequences of characters.                  *)
(* time.Parse("01-2006", s) and Time.Format("01-2006").                    *)
(***************************************************************************)
DigitChars == <<"0", "1", "2", "3", "4", "5", "6", "7", "8", "9">>
IsDigit(c) == \E i \in DOMAIN DigitChars : DigitChars[i] = c
DigitOf(c) == (CHOOSE i \in DOMAIN DigitChars : DigitChars[i] = c) - 1

(* Two digits of month in 1..12, a dash, four digits of year, no more.     *)
time_Parse(s) ==
    IF /\ Len(s) = 7
       /\ IsDigit(s[1]) /\ IsDigit(s[2])
       /\ s[3] = "-"
       /\ \A i \in 4 .. 7 : IsDigit(s[i])
       /\ (DigitOf(s[1]) * 10 + DigitOf(s[2])) \in 1 .. 12
    THEN [err |-> NoError,
          t |-> Date(DigitOf(s[4]) * 1000 + DigitOf(s[5]) * 100
                        + DigitOf(s[6]) * 10 + DigitOf(s[7]),
                     DigitOf(s[1]) * 10 + DigitOf(s[2]), 1)]
    ELSE [err |-> "parsing time: cannot parse", t |-> 0]

(* A Format of layout "1-2006": the month without its leading zero.        *)
time_Format_NoPadding(t) ==
    (IF MonthOf(t) < 10 THEN <<>> ELSE <<"1">>) \o
    <<DigitChars[(MonthOf(t) % 10) + 1], "-",
      DigitChars[((YearOf(t) \div 1000) % 10) + 1],
      DigitChars[((YearOf(t) \div 100) % 10) + 1],
      DigitChars[((YearOf(t) \div 10) % 10) + 1],
      DigitChars[(YearOf(t) % 10) + 1]>>

time_Format(t) ==
    <<DigitChars[(MonthOf(t) \div 10) + 1], DigitChars[(MonthOf(t) % 10) + 1], "-",
      DigitChars[((YearOf(t) \div 1000) % 10) + 1],
      DigitChars[((YearOf(t) \div 100) % 10) + 1],
      DigitChars[((YearOf(t) \div 10) % 10) + 1],
      DigitChars[(YearOf(t) % 10) + 1]>>

(***************************************************************************)
(* model: the request DTO, its validation tags and the mappers.            *)
(***************************************************************************)
CreateSubscriptionRequest(name, price, user, start, end) ==
    [ServiceName |-> name, Price |-> price, UserID |-> user,
     StartDate |-> start, EndDate |-> end]

(* A validation of the shape only: two digits, a dash, four digits.        *)
validateMonthYear_ShapeOnly(value) ==
    /\ Len(value) = 7
    /\ IsDigit(value[1]) /\ IsDigit(value[2])
    /\ value[3] = "-"
    /\ \A i \in 4 .. 7 : IsDigit(value[i])

validateMonthYear(value) == time_Parse(value).err = NoError

(* Validate.Struct: per field, the first tag that fails.  required fails   *)
(* on the zero value of the field's type; omitempty skips a nil pointer.   *)
Validate_Struct(req) ==
    (IF req.ServiceName = <<>> THEN {<<"ServiceName", "required">>}
     ELSE IF Len(req.ServiceName) < 2 THEN {<<"ServiceName", "min">>} ELSE {})
    \cup
    (IF req.Price = 0 THEN {<<"Price", "required">>}
     ELSE IF req.Price < 0 THEN {<<"Price", "min">>} ELSE {})
    \cup
    (IF req.UserID = Nil THEN {<<"UserID", "required">>} ELSE {})
    \cup
    (IF req.StartDate = <<>> THEN {<<"StartDate", "required">>}
     ELSE IF ~validateMonthYear(req.StartDate) THEN {<<"StartDate", "mmYYYY">>}
     ELSE {})
    \cup
    (IF req.EndDate # NULL /\ ~validateMonthYear(req.EndDate[1])
     THEN {<<"EndDate", "mmYYYY">>} ELSE {})

ToDomain(req) ==
    LET start == time_Parse(req.StartDate)
        end == IF req.EndDate = NULL THEN [err |-> NoError, t |-> 0]
               ELSE time_Parse(req.EndDate[1])
    IN IF start.err # NoError THEN [err |-> start.err, sub |-> NULL]
       ELSE IF end.err # NoError THEN [err |-> end.err, sub |-> NULL]
       ELSE [err |-> NoError,
             sub |-> Subscription(Nil, req.UserID, req.ServiceName, req.Price,
                                  start.t,
                                  IF req.EndDate = NULL THEN NULL ELSE Some(end.t))]

ToResponse(sub) ==
    [ID |-> sub.ID, ServiceName |-> sub.ServiceName, Price |-> sub.Price,
     UserID |-> sub.UserID, StartDate |-> time_Format(sub.StartDate),
     EndDate |-> IF sub.EndDate = NULL THEN NULL
                 ELSE Some(time_Format(sub.EndDate[1]))]

(***************************************************************************)
(* Handlers.  idStr is the {id} of the path: <<id>> when it is the text of *)
(* a uuid, <<>> when uuid.Parse refuses it.  body is the decoded request,  *)
(* <<>> when the JSON decoder refuses it.  A handler returns the status it *)
(* wrote, the body it wrote, the error of the service ("" when the service *)
(* was not reached or succeeded), the table, the repository calls and the  *)
(* invocations of the service.                                             *)
(***************************************************************************)
StatusOK == 200
StatusCreated == 201
StatusNoContent == 204
StatusBadRequest == 400
StatusNotFound == 404
StatusInternalServerError == 500

errorResponse(msg) == [error |-> msg]

Written(status, body, res, fn) ==
    [status |-> status, body |-> body, err |-> res.err, rows |-> res.rows,
     calls |-> res.calls, service |-> <<fn>>]

Refused(msg, rows) ==
    [status |-> StatusBadRequest, body |-> errorResponse(msg), err |-> NoError,
     rows |-> rows, calls |-> <<>>, service |-> <<>>]

SubscriptionHandler_Create(rows, body, id, ts, dbErr) ==
    IF body = NULL THEN Refused("invalid request body", rows)
    ELSE IF Validate_Struct(body) # {} THEN Refused(Validate_Struct(body), rows)
    ELSE IF ToDomain(body).err # NoError THEN Refused("invalid date format", rows)
    ELSE LET res == subscriptionService_Create(rows, ToDomain(body).sub, id, ts, dbErr)
         IN IF res.err # NoError
            THEN Written(StatusInternalServerError, errorResponse(res.err), res, "Create")
            ELSE Written(StatusCreated, ToResponse(res.out), res, "Create")

SubscriptionHandler_Get(rows, idStr, dbErr) ==
    IF idStr = NULL THEN Refused("invalid id", rows)
    ELSE LET res == subscriptionService_Get(rows, idStr[1], dbErr)
         IN IF res.err # NoError
            THEN Written(StatusNotFound, errorResponse(res.err), res, "Get")
            ELSE Written(StatusOK, ToResponse(res.out[1]), res, "Get")

(* An Update that hands the decoded body to the service unvalidated.       *)
SubscriptionHandler_Update_Unvalidated(rows, idStr, body, ts, dbErr) ==
    IF idStr = NULL THEN Refused("invalid id", rows)
    ELSE IF body = NULL THEN Refused("invalid request body", rows)
    ELSE IF ToDomain(body).err # NoError THEN Refused("invalid date format", rows)
    ELSE LET sub == [ToDomain(body).sub EXCEPT !.ID = idStr[1]]
             res == subscriptionService_Update(rows, sub, ts, dbErr)
         IN IF res.err # NoError
            THEN Written(StatusInternalServerError, errorResponse(res.err), res, "Update")
            ELSE Written(StatusOK, ToResponse(sub), res, "Update")

SubscriptionHandler_Update(rows, idStr, body, ts, dbErr) ==
    IF idStr = NULL THEN Refused("invalid id", rows)
    ELSE IF body = NULL THEN Refused("invalid request body", rows)
    ELSE IF Validate_Struct(body) # {} THEN Refused(Validate_Struct(body), rows)
    ELSE IF ToDomain(body).err # NoError THEN Refused("invalid date format", rows)
    ELSE LET sub == [ToDomain(body).sub EXCEPT !.ID = idStr[1]]
             res == subscriptionService_Update(rows, sub, ts, dbErr)
         IN IF res.err # NoError
            THEN Written(StatusInternalServerError, errorResponse(res.err), res, "Update")
            ELSE Written(StatusOK, ToResponse(sub), res, "Update")

SubscriptionHandler_Delete(rows, idStr, dbErr) ==
    IF idStr = NULL THEN Refused("invalid id", rows)
    ELSE LET res == subscriptionService_Delete(rows, idStr[1], dbErr)
         IN IF res.err # NoError
            THEN Written(StatusInternalServerError, errorResponse(res.err), res, "Delete")
            ELSE Written(StatusNoContent, NULL, res, "Delete")

(* Query parameters are strings, "" (here <<>>) when absent.  The text of  *)
(* a uuid is <<u>>; uuid.Parse refuses every other string.  strconv.Atoi   *)
(* reads an optional sign and digits; List ignores its error and keeps 0.  *)
uuid_Parse(s) ==
    IF Len(s) = 1 THEN [err |-> NoError, id |-> s[1]]
    ELSE [err |-> "invalid UUID", id |-> Nil]

RECURSIVE DigitsValue(_)
DigitsValue(s) ==
    IF s = <<>> THEN 0
    ELSE DigitsValue(SubSeq(s, 1, Len(s) - 1)) * 10 + DigitOf(s[Len(s)])

strconv_Atoi(s) ==
    LET signed == s # <<>> /\ s[1] \in {"-", "+"}
        digits == IF signed THEN Tail(s) ELSE s
    IN IF digits = <<>> \/ \E i \in DOMAIN digits : ~IsDigit(digits[i])
       THEN [err |-> "invalid syntax", n |-> 0]
       ELSE [err |-> NoError,
             n |-> IF signed /\ s[1] = "-" THEN 0 - DigitsValue(digits)
                   ELSE DigitsValue(digits)]

SubscriptionHandler_List(rows, uid, sn, limitStr, offsetStr, ordered, dbErr) ==
    IF uid # <<>> /\ uuid_Parse(uid).err # NoError
    THEN Refused("invalid user_id", rows)
    ELSE LET userID == IF uid = <<>> THEN NULL ELSE Some(uuid_Parse(uid).id)
             serviceName == IF sn = <<>> THEN NULL ELSE Some(sn)
             res == subscriptionService_List(rows, userID, serviceName,
                                             strconv_Atoi(limitStr).n,
                                             strconv_Atoi(offsetStr).n,
                                             ordered, dbErr)
         IN IF res.err # NoError
            THEN Written(StatusInternalServerError, errorResponse(res.err), res, "List")
            ELSE Written(StatusOK, [i \in DOMAIN res.out |-> ToResponse(res.out[i])],
                         res, "List")

(* A Summary that takes a default period when from or to is missing.       *)
SubscriptionHandler_Summary_DefaultPeriod(rows, fromStr, toStr, uid, sn, dbErr) ==
    LET f == IF fromStr = <<>> THEN <<"0", "1", "-", "2", "0", "2", "5">> ELSE fromStr
        t == IF toStr = <<>> THEN <<"1", "2", "-", "2", "0", "2", "5">> ELSE toStr
    IN IF time_Parse(f).err # NoError THEN Refused("invalid from date", rows)
       ELSE IF time_Parse(t).err # NoError THEN Refused("invalid to date", rows)
       ELSE IF uid # <<>> /\ uuid_Parse(uid).err # NoError
            THEN Refused("invalid user_id", rows)
       ELSE LET userID == IF uid = <<>> THEN NULL ELSE Some(uuid_Parse(uid).id)
                serviceName == IF sn = <<>> THEN NULL ELSE Some(sn)
                res == subscriptionService_Aggregate(rows, userID, serviceName,
                                                     time_Parse(f).t,
                                                     time_Parse(t).t, dbErr)
            IN IF res.err # NoError
               THEN Written(StatusBadRequest, errorResponse(res.err), res, "Aggregate")
               ELSE Written(StatusOK, [total |-> res.out], res, "Aggregate")

SubscriptionHandler_Summary(rows, fromStr, toStr, uid, sn, dbErr) ==
    IF fromStr = <<>> \/ toStr = <<>> THEN Refused("from and to are required", rows)
    ELSE IF time_Parse(fromStr).err # NoError THEN Refused("invalid from date", rows)
    ELSE IF time_Parse(toStr).err # NoError THEN Refused("invalid to date", rows)
    ELSE IF uid # <<>> /\ uuid_Parse(uid).err # NoError
         THEN Refused("invalid user_id", rows)
    ELSE LET userID == IF uid = <<>> THEN NULL ELSE Some(uuid_Parse(uid).id)
             serviceName == IF sn = <<>> THEN NULL ELSE Some(sn)
             res == subscriptionService_Aggregate(rows, userID, serviceName,
                                                  time_Parse(fromStr).t,
                                                  time_Parse(toStr).t, dbErr)
         IN IF res.err # NoError
            THEN Written(StatusBadRequest, errorResponse(res.err), res, "Aggregate")
            ELSE Written(StatusOK, [total |-> res.out], res, "Aggregate")

(***************************************************************************)
(* State.                                                                  *)
(*   subscriptions  the rows of the table                                  *)
(*   issued         the ids gen_random_uuid() has produced so far          *)
(*   now            the database clock, now(); the calls modelled here all  *)
(*                  run within one tick                                    *)
(*   last           the last call that returned: its operation, input,     *)
(*                  error, result, the repository invocations it issued    *)
(*                  and, for a handler, the HTTP status it wrote           *)
(*   deleted        the ids whose DELETE removed a row                     *)
(*   inflight       the two requests of a concurrent update and delete:    *)
(*                  where each is, what it returned, and the order in      *)
(*                  which their statements were executed                   *)
(*   submitted      per id that a create returned and no delete removed,   *)
(*                  the values the clients submitted for it: those of the  *)
(*                  create, overwritten by each successful update          *)
(***************************************************************************)
Returned(op, in, res) ==
    [op |-> op, in |-> in, err |-> res.err, out |-> res.out,
     calls |-> res.calls, status |-> 0]

(* What a row is to hold: the values bound to the INSERT that made it, and *)
(* over them the values bound to the SET list of an UPDATE.                *)
InsertParams(sub) ==
    [UserID |-> sub.UserID, ServiceName |-> sub.ServiceName,
     Price |-> sub.Price, StartDate |-> sub.StartDate, EndDate |-> sub.EndDate]

UpdateParams(old, sub) ==
    [old EXCEPT !.ServiceName = sub.ServiceName, !.Price = sub.Price,
                !.StartDate = sub.StartDate, !.EndDate = sub.EndDate]

(* No request is in flight. *)
Idle == [update |-> [pc |-> "idle"], delete |-> [pc |-> "idle"], order |-> <<>>]

Init ==
    /\ subscriptions = {}
    /\ issued = {}
    /\ now = 1
    /\ last = [op |-> "none", in |-> NULL, err |-> NoError, out |-> NULL,
               calls |-> <<>>, status |-> 0]
    /\ deleted = {}
    /\ submitted = <<>>
    /\ inflight = Idle

(* The table and its history after a service Create returned res. *)
AfterCreate(sub, id, res) ==
    /\ subscriptions' = res.rows
    /\ IF res.err = NoError
       THEN /\ issued' = issued \cup {id}
            /\ submitted' = (res.out.ID :> InsertParams(sub)) @@ submitted
       ELSE UNCHANGED <<issued, submitted>>
    /\ UNCHANGED <<now, deleted>>

AfterUpdate(sub, res) ==
    /\ subscriptions' = res.rows
    /\ IF res.err = NoError
       THEN submitted' = [submitted EXCEPT ![sub.ID] = UpdateParams(@, sub)]
       ELSE UNCHANGED submitted
    /\ UNCHANGED <<issued, now, deleted>>

AfterDelete(id, res) ==
    /\ subscriptions' = res.rows
    /\ IF res.err = NoError
       THEN /\ deleted' = deleted \cup {id}
            /\ submitted' = [i \in (DOMAIN submitted) \ {id} |-> submitted[i]]
       ELSE UNCHANGED <<deleted, submitted>>
    /\ UNCHANGED <<issued, now>>

AfterRead(res) ==
    /\ subscriptions' = res.rows
    /\ UNCHANGED <<issued, now, deleted, submitted>>

(***************************************************************************)
(* Calls of the service, one action per method.                            *)
(***************************************************************************)
ServiceCreate(sub, dbErr) ==
    \E id \in Ids \ issued :
        LET res == subscriptionService_Create(subscriptions, sub, id, now, dbErr)
        IN /\ last' = Returned("Create", sub, res)
           /\ AfterCreate(sub, id, res)
           /\ UNCHANGED inflight

ServiceGet(id, dbErr) ==
    LET res == subscriptionService_Get(subscriptions, id, dbErr)
    IN /\ last' = Returned("Get", id, res)
       /\ AfterRead(res)
       /\ UNCHANGED inflight

ServiceUpdate(sub, dbErr) ==
    LET res == subscriptionService_Update(subscriptions, sub, now, dbErr)
    IN /\ last' = Returned("Update", sub, res)
       /\ AfterUpdate(sub, res)
       /\ UNCHANGED inflight

ServiceDelete(id, dbErr) ==
    LET res == subscriptionService_Delete(subscriptions, id, dbErr)
    IN /\ last' = Returned("Delete", id, res)
       /\ AfterDelete(id, res)
       /\ UNCHANGED inflight

ServiceList(userID, serviceName, limit, offset, dbErr) ==
    \E ordered \in ListOrders(subscriptions, userID, serviceName) :
        LET res == subscriptionService_List(subscriptions, userID, serviceName,
                                            limit, offset, ordered, dbErr)
        IN /\ last' = Returned("List",
                               [userID |-> userID, serviceName |-> serviceName,
                                limit |-> limit, offset |-> offset], res)
           /\ AfterRead(res)
           /\ UNCHANGED inflight

ServiceAggregate(userID, serviceName, from, to, dbErr) ==
    LET res == subscriptionService_Aggregate(subscriptions, userID, serviceName,
                                             from, to, dbErr)
    IN /\ last' = Returned("Aggregate",
                           [userID |-> userID, serviceName |-> serviceName,
                            from |-> from, to |-> to], res)
       /\ AfterRead(res)
       /\ UNCHANGED inflight

(***************************************************************************)
(* A service Update and a service Delete of the same id, called by two     *)
(* concurrent requests.  Update checks its gate and then executes one      *)
(* UPDATE statement, Delete executes one DELETE statement; the database    *)
(* executes each statement atomically, in either order.                    *)
(***************************************************************************)
UpdateGateErr(sub) ==
    LET res == subscriptionService_Update({}, sub, 0, NoError)
    IN IF res.calls = <<>> THEN res.err ELSE NoError

RaceStart(sub) ==
    /\ inflight = Idle
    /\ sub.ID \in RowIds(subscriptions)
    /\ inflight' = [update |-> [pc |-> "called", sub |-> sub, err |-> NoError],
                    delete |-> [pc |-> "called", id |-> sub.ID, err |-> NoError],
                    order |-> <<>>]
    /\ UNCHANGED <<subscriptions, issued, now, last, deleted, submitted>>

UpdateGate ==
    /\ inflight.update.pc = "called"
    /\ inflight' = [inflight EXCEPT
                       !.update.pc = IF UpdateGateErr(inflight.update.sub) = NoError
                                     THEN "statement" ELSE "done",
                       !.update.err = UpdateGateErr(inflight.update.sub)]
    /\ UNCHANGED <<subscriptions, issued, now, last, deleted, submitted>>

UpdateStatement(dbErr) ==
    /\ inflight.update.pc = "statement"
    /\ LET sub == inflight.update.sub
           res == FromRepo(subscriptionRepo_Update(subscriptions, sub, now, dbErr),
                           [fn |-> "Update", sub |-> sub])
       IN /\ inflight' = [inflight EXCEPT
                             !.update.pc = "done",
                             !.update.err = res.err,
                             !.order = IF dbErr = NoError THEN Append(@, "update")
                                       ELSE @]
          /\ last' = Returned("Update", sub, res)
          /\ AfterUpdate(sub, res)

DeleteStatement(dbErr) ==
    /\ inflight.delete.pc = "called"
    /\ LET id == inflight.delete.id
           res == subscriptionService_Delete(subscriptions, id, dbErr)
       IN /\ inflight' = [inflight EXCEPT
                             !.delete.pc = "done",
                             !.delete.err = res.err,
                             !.order = IF dbErr = NoError THEN Append(@, "delete")
                                       ELSE @]
          /\ last' = Returned("Delete", id, res)
          /\ AfterDelete(id, res)

RaceEnd ==
    /\ inflight.update.pc = "done"
    /\ inflight.delete.pc = "done"
    /\ inflight' = Idle
    /\ UNCHANGED <<subscriptions, issued, now, last, deleted, submitted>>

(***************************************************************************)
(* Requests to the handlers, one action per route.                         *)
(***************************************************************************)
Answered(op, idStr, body, res) ==
    [op |-> op, in |-> [id |-> idStr, body |-> body], err |-> res.err,
     out |-> res.body, calls |-> res.calls, status |-> res.status,
     service |-> res.service, before |-> subscriptions]

(* The request answered: the response written and the effect on the table; *)
(* the Http actions are the requests served one at a time.                 *)
CreateAnswered(body, dbErr) ==
    \E id \in Ids \ issued :
        LET res == SubscriptionHandler_Create(subscriptions, body, id, now, dbErr)
        IN /\ last' = Answered("POST", NULL, body, res)
           /\ subscriptions' = res.rows
           /\ IF res.status = StatusCreated
              THEN /\ issued' = issued \cup {id}
                   /\ submitted' = (id :> InsertParams(ToDomain(body).sub)) @@ submitted
              ELSE UNCHANGED <<issued, submitted>>
           /\ UNCHANGED <<now, deleted>>

GetAnswered(idStr, dbErr) ==
    LET res == SubscriptionHandler_Get(subscriptions, idStr, dbErr)
    IN /\ last' = Answered("GET", idStr, NULL, res)
       /\ subscriptions' = res.rows
       /\ UNCHANGED <<issued, now, deleted, submitted>>

UpdateAnswered(idStr, body, dbErr) ==
    LET res == SubscriptionHandler_Update(subscriptions, idStr, body, now, dbErr)
    IN /\ last' = Answered("PUT", idStr, body, res)
       /\ subscriptions' = res.rows
       /\ IF res.status = StatusOK
          THEN submitted' = [submitted EXCEPT
                                ![idStr[1]] = UpdateParams(@, ToDomain(body).sub)]
          ELSE UNCHANGED submitted
       /\ UNCHANGED <<issued, now, deleted>>

DeleteAnswered(idStr, dbErr) ==
    LET res == SubscriptionHandler_Delete(subscriptions, idStr, dbErr)
    IN /\ last' = Answered("DELETE", idStr, NULL, res)
       /\ subscriptions' = res.rows
       /\ IF res.status = StatusNoContent
          THEN /\ deleted' = deleted \cup {idStr[1]}
               /\ submitted' = [i \in (DOMAIN submitted) \ {idStr[1]} |-> submitted[i]]
          ELSE UNCHANGED <<deleted, submitted>>
       /\ UNCHANGED <<issued, now>>

ListAnswered(uid, sn, limitStr, offsetStr, dbErr) ==
    \E ordered \in ListOrders(subscriptions,
                              IF Len(uid) = 1 THEN uid ELSE NULL,
                              IF sn = <<>> THEN NULL ELSE Some(sn)) :
        LET res == SubscriptionHandler_List(subscriptions, uid, sn, limitStr,
                                            offsetStr, ordered, dbErr)
        IN /\ last' = Answered("LIST", NULL,
                               [user_id |-> uid, service_name |-> sn,
                                limit |-> limitStr, offset |-> offsetStr], res)
           /\ subscriptions' = res.rows
           /\ UNCHANGED <<issued, now, deleted, submitted>>

SummaryAnswered(fromStr, toStr, uid, sn, dbErr) ==
    LET res == SubscriptionHandler_Summary(subscriptions, fromStr, toStr, uid, sn, dbErr)
    IN /\ last' = Answered("SUMMARY", NULL,
                           [from |-> fromStr, to |-> toStr, user_id |-> uid,
                            service_name |-> sn], res)
       /\ subscriptions' = res.rows
       /\ UNCHANGED <<issued, now, deleted, submitted>>

HttpCreate(body, dbErr) == CreateAnswered(body, dbErr) /\ UNCHANGED inflight

HttpGet(idStr, dbErr) == GetAnswered(idStr, dbErr) /\ UNCHANGED inflight

HttpUpdate(idStr, body, dbErr) ==
    UpdateAnswered(idStr, body, dbErr) /\ UNCHANGED inflight

HttpDelete(idStr, dbErr) == DeleteAnswered(idStr, dbErr) /\ UNCHANGED inflight

HttpList(uid, sn, limitStr, offsetStr, dbErr) ==
    ListAnswered(uid, sn, limitStr, offsetStr, dbErr) /\ UNCHANGED inflight

HttpSummary(fromStr, toStr, uid, sn, dbErr) ==
    SummaryAnswered(fromStr, toStr, uid, sn, dbErr) /\ UNCHANGED inflight

(***************************************************************************)
(* Spec: the service under create, get, update and delete calls.  The      *)
(* clients submit a valid subscription with and without an end date, the   *)
(* two boundaries of the gate (price 0, end_date equal to start_date) and  *)
(* the inputs the gate refuses.                                            *)
(***************************************************************************)
NewSubs ==
    {Subscription(Nil, 1, "Yandex", 2, Jan, NULL),
     Subscription(Nil, 2, "Google", 0, Feb, Some(Mar)),
     Subscription(Nil, 1, "Google", 2, Feb, Some(Feb)),
     Subscription(Nil, 1, "Yandex", -1, Jan, NULL),
     Subscription(Nil, 2, "Yandex", 2, Feb, Some(Jan)),
     Subscription(Nil, 2, "Google", -1, Mar, Some(Feb))}

WithID(subs, id) == {[sub EXCEPT !.ID = id] : sub \in subs}

Next ==
    \/ \E sub \in NewSubs, dbErr \in DbErrs : ServiceCreate(sub, dbErr)
    \/ \E id \in Ids, dbErr \in DbErrs : ServiceGet(id, dbErr)
    \/ \E id \in Ids, dbErr \in DbErrs :
          \E sub \in WithID(NewSubs, id) : ServiceUpdate(sub, dbErr)
    \/ \E id \in Ids, dbErr \in DbErrs : ServiceDelete(id, dbErr)

Spec == Init /\ [][Next]_vars

(***************************************************************************)
(* SpecRace: records are created; then an Update and a Delete of one       *)
(* stored id run concurrently, with every request of the clients as the    *)
(* update.                                                                 *)
(***************************************************************************)
NextRace ==
    \/ \E sub \in NewSubs : inflight = Idle /\ ServiceCreate(sub, NoError)
    \/ \E id \in Ids : \E sub \in WithID(NewSubs, id) : RaceStart(sub)
    \/ UpdateGate
    \/ \E dbErr \in DbErrs : UpdateStatement(dbErr)
    \/ \E dbErr \in DbErrs : DeleteStatement(dbErr)
    \/ RaceEnd

SpecRace == Init /\ [][NextRace]_vars

(***************************************************************************)
(* SpecQuery: the service under create, list and aggregate calls.  The     *)
(* clients create, for every owner and service, an open subscription from  *)
(* January (price 1), one from January to February (price 2) and an open   *)
(* one from March (price 4), so that a total tells which periods it adds.  *)
(***************************************************************************)
QueryPeriods ==
    {[price |-> 1, start |-> Jan, end |-> NULL],
     [price |-> 2, start |-> Jan, end |-> Some(Feb)],
     [price |-> 4, start |-> Mar, end |-> NULL]}

QuerySubs ==
    {Subscription(Nil, u, n, p.price, p.start, p.end) :
        u \in Users, n \in ServiceNames, p \in QueryPeriods}

AggregateCalls ==
    {<<NULL, NULL, Jan, Mar, NoError>>,
     <<Some(1), NULL, Feb, Feb, NoError>>,
     <<Some(2), Some("Yandex"), Mar, Mar, NoError>>,
     <<NULL, Some("Google"), Jan, Date(2025, 1, 31), NoError>>,
     <<Some(1), NULL, Mar, Jan, NoError>>,
     <<NULL, NULL, Jan, Mar, ErrConn>>}

ListCalls ==
    {<<NULL, NULL, 0, -1, NoError>>,
     <<Some(1), NULL, 0, -1, NoError>>,
     <<NULL, Some("Google"), 1, 1, NoError>>,
     <<Some(2), Some("Yandex"), 25, 0, NoError>>,
     <<NULL, NULL, -1, 0, ErrConn>>}

NextQuery ==
    \/ \E sub \in QuerySubs : ServiceCreate(sub, NoError)
    \/ \E c \in AggregateCalls : ServiceAggregate(c[1], c[2], c[3], c[4], c[5])
    \/ \E c \in ListCalls : ServiceList(c[1], c[2], c[3], c[4], c[5])

SpecQuery == Init /\ [][NextQuery]_vars

(***************************************************************************)
(* The inputs the properties of the gate range over: every price and       *)
(* period, with and without an id, besides what the clients submit.        *)
(***************************************************************************)
GateSubs ==
    {Subscription(id, 1, "Yandex", p, s, e) :
        id \in AnyIds, p \in Prices, s \in Months, e \in OptMonths}
    \cup NewSubs

FreshId == IF Ids \ issued = {} THEN MaxIds ELSE CHOOSE i \in Ids \ issued : TRUE

EndsBeforeStart(sub) == sub.EndDate # NULL /\ sub.EndDate[1] < sub.StartDate

(* C3: for every subscription with price < 0, service Create and service   *)
(* Update return an error and issue no repository invocation, whatever the *)
(* other fields, the table and the state of the database are.              *)
C3_NegativePriceNeverPersisted ==
    /\ \A sub \in GateSubs, dbErr \in DbErrs :
          sub.Price < 0 =>
             LET c == subscriptionService_Create(subscriptions, sub, FreshId, now, dbErr)
                 u == subscriptionService_Update(subscriptions, sub, now, dbErr)
             IN /\ c.err # NoError /\ c.calls = <<>> /\ c.rows = subscriptions
                /\ u.err # NoError /\ u.calls = <<>> /\ u.rows = subscriptions
    /\ (last.op \in {"Create", "Update"} /\ last.in.Price < 0) =>
          (last.err # NoError /\ last.calls = <<>>)

C3_Witness ==
    /\ last.op = "Update"
    /\ last.in.Price < 0
    /\ last.in.ID \in RowIds(subscriptions)
    /\ last.err = ErrPrice

(* C4: with price >= 0, service Create and service Update return the       *)
(* date-range error exactly when end_date is present and strictly before   *)
(* start_date, and then issue no repository invocation; an end_date equal  *)
(* to start_date, or no end_date, reaches the repository.                  *)
C4_DateRangeGate ==
    /\ \A sub \in GateSubs, dbErr \in DbErrs :
          sub.Price >= 0 =>
             LET c == subscriptionService_Create(subscriptions, sub, FreshId, now, dbErr)
                 u == subscriptionService_Update(subscriptions, sub, now, dbErr)
             IN IF EndsBeforeStart(sub)
                THEN /\ c.err = ErrDateRange /\ c.calls = <<>>
                     /\ u.err = ErrDateRange /\ u.calls = <<>>
                ELSE /\ c.err # ErrDateRange /\ Len(c.calls) = 1
                     /\ u.err # ErrDateRange /\ Len(u.calls) = 1
    /\ (last.op \in {"Create", "Update"} /\ last.in.Price >= 0) =>
          /\ (last.err = ErrDateRange) <=> EndsBeforeStart(last.in)
          /\ (last.calls = <<>>) <=> EndsBeforeStart(last.in)

C4_Witness ==
    /\ last.op = "Create"
    /\ last.in.Price >= 0
    /\ last.in.EndDate = Some(last.in.StartDate)
    /\ last.err = NoError
    /\ \E r \in subscriptions : r.end_date = Some(r.start_date)

(* C5: every stored record has price >= 0 and no end_date before its       *)
(* start_date, after any sequence of service calls.                        *)
C5_StoredRecordsValid ==
    \A r \in subscriptions :
        /\ r.price >= 0
        /\ (r.end_date = NULL \/ r.end_date[1] >= r.start_date)

C5_Witness ==
    /\ \E r \in subscriptions : r.end_date = Some(r.start_date) /\ r.user_id = 2
    /\ \E r \in subscriptions : r.price = 0
    /\ last.op = "Update"
    /\ last.err = ErrDateRange

(* C7: once a delete of an id has succeeded, no record carries that id any *)
(* more, and every get, delete and update (that the gate lets through) on  *)
(* that id finds no row and returns ErrNotFound.                           *)
C7_DeletedStaysNotFound ==
    \A id \in deleted :
        /\ id \notin RowIds(subscriptions)
        /\ subscriptionService_Get(subscriptions, id, NoError).err = ErrNotFound
        /\ subscriptionService_Delete(subscriptions, id, NoError).err = ErrNotFound
        /\ \A sub \in WithID(GateSubs, id) :
              LET u == subscriptionService_Update(subscriptions, sub, now, NoError)
              IN u.calls # <<>> => u.err = ErrNotFound
        /\ (last.op = "Get" /\ last.in = id /\ last.err # ErrConn) =>
              last.err = ErrNotFound
        /\ (last.op = "Update" /\ last.in.ID = id /\ last.calls # <<>>
            /\ last.err # ErrConn) => last.err = ErrNotFound

C7_Witness ==
    /\ last.op = "Get"
    /\ last.in \in deleted
    /\ last.err = ErrNotFound
    /\ subscriptions # {}

(* C8: a get of the id that create returned returns the user_id,           *)
(* service_name, price, start_date and end_date that were submitted for    *)
(* it, and the id create returns is not uuid.Nil.                          *)
C8_GetReturnsCreated ==
    /\ (last.op = "Create" /\ last.err = NoError) =>
          /\ last.out.ID # Nil
          /\ last.out.ID \in DOMAIN submitted
          /\ submitted[last.out.ID] = InsertParams(last.in)
    /\ \A id \in DOMAIN submitted :
          LET g == subscriptionService_Get(subscriptions, id, NoError)
          IN /\ id # Nil
             /\ g.err = NoError
             /\ g.out[1].ID = id
             /\ InsertParams(g.out[1]) = submitted[id]
    /\ (last.op = "Get" /\ last.err = NoError) =>
          InsertParams(last.out[1]) = submitted[last.in]

(* A record of owner 2 with an end date, read back beside another record.  *)
C8_Witness ==
    /\ last.op = "Get"
    /\ last.err = NoError
    /\ last.out[1].UserID = 2
    /\ last.out[1].ServiceName = "Google"
    /\ last.out[1].EndDate = Some(Mar)
    /\ Cardinality(subscriptions) = 2

(* C9: after a successful update of an existing id, a get of that id       *)
(* returns the service_name, price, start_date and end_date of the update  *)
(* request; an update without end_date clears a stored end_date.           *)
C9_GetReturnsUpdated ==
    /\ (last.op = "Update" /\ last.err = NoError) =>
          LET g == subscriptionService_Get(subscriptions, last.in.ID, NoError)
          IN /\ g.err = NoError
             /\ g.out[1].ServiceName = last.in.ServiceName
             /\ g.out[1].Price = last.in.Price
             /\ g.out[1].StartDate = last.in.StartDate
             /\ g.out[1].EndDate = last.in.EndDate
             /\ submitted[last.in.ID].ServiceName = last.in.ServiceName
             /\ submitted[last.in.ID].Price = last.in.Price
             /\ submitted[last.in.ID].StartDate = last.in.StartDate
             /\ submitted[last.in.ID].EndDate = last.in.EndDate
    /\ (last.op = "Get" /\ last.err = NoError) =>
          /\ last.out[1].ServiceName = submitted[last.in].ServiceName
          /\ last.out[1].Price = submitted[last.in].Price
          /\ last.out[1].StartDate = submitted[last.in].StartDate
          /\ last.out[1].EndDate = submitted[last.in].EndDate

(* The clients create a record of owner 2 only with an end date: a record  *)
(* of owner 2 read back without one was updated by a request without one.  *)
C9_Witness ==
    /\ last.op = "Get"
    /\ last.err = NoError
    /\ last.out[1].UserID = 2
    /\ last.out[1].EndDate = NULL
    /\ last.out[1].ServiceName = "Yandex"

(***************************************************************************)
(* SpecHttp: the handlers under POST, GET, PUT and DELETE requests.  The   *)
(* clients send two bodies the validation accepts, one whose end_date is   *)
(* before its start_date, bodies the validation refuses (price 0, a short  *)
(* name with month 13, a year-first date), a body that is not JSON, and    *)
(* paths whose id is and is not the text of a uuid.                        *)
(***************************************************************************)
Yandex == <<"Y", "a", "n", "d", "e", "x">>
Google == <<"G", "o", "o", "g", "l", "e">>
Str_01_2025 == <<"0", "1", "-", "2", "0", "2", "5">>
Str_02_2025 == <<"0", "2", "-", "2", "0", "2", "5">>
Str_03_2025 == <<"0", "3", "-", "2", "0", "2", "5">>
Str_13_2025 == <<"1", "3", "-", "2", "0", "2", "5">>
Str_2025_01 == <<"2", "0", "2", "5", "-", "0", "1">>

ValidBodies ==
    {CreateSubscriptionRequest(Yandex, 2, 1, Str_01_2025, NULL),
     CreateSubscriptionRequest(Google, 3, 2, Str_02_2025, Some(Str_03_2025))}

HttpBodies ==
    ValidBodies \cup
    {NULL,
     CreateSubscriptionRequest(Yandex, 2, 1, Str_02_2025, Some(Str_01_2025)),
     CreateSubscriptionRequest(Yandex, 0, 1, Str_01_2025, NULL),
     CreateSubscriptionRequest(<<"Y">>, 2, 1, Str_13_2025, NULL),
     CreateSubscriptionRequest(Google, 3, 2, Str_2025_01, NULL)}

(* The bodies of the PUT requests: accepted, not JSON, refused by the      *)
(* service, refused by the validation.                                     *)
PutBodies ==
    ValidBodies \cup
    {NULL,
     CreateSubscriptionRequest(Yandex, 2, 1, Str_02_2025, Some(Str_01_2025)),
     CreateSubscriptionRequest(<<"Y">>, 2, 1, Str_13_2025, NULL)}

PathIds == {NULL} \cup {Some(id) : id \in Ids}

(* Queries: <<from, to, user_id, service_name>> of a summary and           *)
(* <<user_id, service_name, limit, offset>> of a list.                     *)
NotAUuid == <<"x", "y">>
Str_25 == <<"2", "5">>
Str_Minus1 == <<"-", "1">>

SummaryQueries ==
    {<<Str_01_2025, Str_03_2025, <<>>, <<>>>>,
     <<Str_02_2025, Str_02_2025, <<1>>, Yandex>>,
     <<Str_03_2025, Str_01_2025, <<>>, <<>>>>,
     <<<<>>, Str_03_2025, <<>>, <<>>>>,
     <<Str_01_2025, <<>>, <<>>, <<>>>>,
     <<Str_2025_01, Str_03_2025, <<>>, <<>>>>,
     <<Str_01_2025, Str_13_2025, <<>>, <<>>>>,
     <<Str_01_2025, Str_03_2025, NotAUuid, <<>>>>}

ListQueries ==
    {<<<<>>, <<>>, <<>>, <<>>>>,
     <<<<1>>, <<>>, Str_25, <<>>>>,
     <<<<>>, Google, <<"1">>, <<"1">>>>,
     <<<<>>, <<>>, Str_Minus1, NotAUuid>>,
     <<NotAUuid, <<>>, <<>>, <<>>>>}

(* The storage fails only under a request that reaches it: the handlers    *)
(* refuse every other body before the first round trip, and a PUT whose id *)
(* is not a uuid before its body is read.                                  *)
NextHttp ==
    \/ \E body \in HttpBodies, dbErr \in DbErrs :
          (body \in ValidBodies \/ dbErr = NoError) /\ HttpCreate(body, dbErr)
    \/ \E idStr \in PathIds, dbErr \in DbErrs : HttpGet(idStr, dbErr)
    \/ \E idStr \in PathIds, body \in PutBodies, dbErr \in DbErrs :
          /\ body \in ValidBodies \/ (dbErr = NoError /\ idStr # NULL)
          /\ HttpUpdate(idStr, body, dbErr)
    \/ \E idStr \in PathIds, dbErr \in DbErrs : HttpDelete(idStr, dbErr)

SpecHttp == Init /\ [][NextHttp]_vars

(***************************************************************************)
(* SpecHttpRead: records are created by valid POSTs and read by the get,   *)
(* list and summary routes.                                                *)
(***************************************************************************)
NextHttpRead ==
    \/ \E body \in ValidBodies : HttpCreate(body, NoError)
    \/ \E idStr \in PathIds, dbErr \in DbErrs : HttpGet(idStr, dbErr)
    \/ \E q \in ListQueries, dbErr \in DbErrs :
          HttpList(q[1], q[2], q[3], q[4], dbErr)
    \/ \E q \in SummaryQueries, dbErr \in DbErrs :
          HttpSummary(q[1], q[2], q[3], q[4], dbErr)

SpecHttpRead == Init /\ [][NextHttpRead]_vars

(***************************************************************************)
(* The filters and ranges the properties of the queries range over.        *)
(***************************************************************************)
Contributes(r, userID, serviceName, from, to) ==
    /\ (userID # NULL => r.user_id = userID[1])
    /\ (serviceName # NULL => r.service_name = serviceName[1])
    /\ ~(r.start_date > to)
    /\ ~(r.end_date # NULL /\ r.end_date[1] < from)

RECURSIVE TotalOfIds(_, _, _, _, _)
TotalOfIds(n, userID, serviceName, from, to) ==
    IF n = 0 THEN 0
    ELSE TotalOfIds(n - 1, userID, serviceName, from, to)
         + (IF \E r \in subscriptions :
                  r.id = n /\ Contributes(r, userID, serviceName, from, to)
            THEN RowOf(subscriptions, n).price ELSE 0)

ExpectedTotal(userID, serviceName, from, to) ==
    TotalOfIds(MaxIds, userID, serviceName, from, to)

(* C1: for every table, filter and range with from <= to, AggregateCost    *)
(* returns the sum of price over the stored subscriptions that match the   *)
(* filter, start no later than to and have no end_date before from.        *)
C1_AggregateIsOverlapSum ==
    /\ \A userID \in OptUsers, serviceName \in OptNames, from \in Days, to \in Days :
          from <= to =>
             LET res == subscriptionRepo_AggregateCost(subscriptions, userID,
                                                       serviceName, from, to, NoError)
             IN /\ res.err = NoError
                /\ res.out = ExpectedTotal(userID, serviceName, from, to)
    /\ (last.op = "Aggregate" /\ last.err = NoError) =>
          last.out = ExpectedTotal(last.in.userID, last.in.serviceName,
                                   last.in.from, last.in.to)

(* Of two subscriptions of owner 1, the March one starts after the range   *)
(* and only the one that ends in February is added.                        *)
C1_Witness ==
    /\ last.op = "Aggregate"
    /\ last.err = NoError
    /\ last.in.userID = Some(1)
    /\ last.in.from = Feb /\ last.in.to = Feb
    /\ last.out = 2
    /\ \E r \in subscriptions : r.user_id = 1 /\ r.start_date = Mar
    /\ \E r \in subscriptions : r.user_id = 1 /\ r.end_date = Some(Feb)

(* C2: every Aggregate call with from after to returns ErrInvalidPeriod    *)
(* and a total of 0 and never invokes the repository.                      *)
C2_BackwardsPeriodRejected ==
    /\ \A userID \in OptUsers, serviceName \in OptNames, from \in Days, to \in Days,
          dbErr \in DbErrs :
          from > to =>
             LET res == subscriptionService_Aggregate(subscriptions, userID,
                                                      serviceName, from, to, dbErr)
             IN /\ res.err = ErrInvalidPeriod
                /\ res.out = 0
                /\ res.calls = <<>>
    /\ (last.op = "Aggregate" /\ last.in.from > last.in.to) =>
          /\ last.err = ErrInvalidPeriod
          /\ last.out = 0
          /\ last.calls = <<>>

C2_Witness ==
    /\ last.op = "Aggregate"
    /\ last.in.from = Mar /\ last.in.to = Jan
    /\ last.err = ErrInvalidPeriod
    /\ \E r \in subscriptions : r.start_date = Jan /\ r.end_date = NULL

(* C6: service List invokes the repository once, with limit 20 when the    *)
(* given limit is zero or negative and the given limit otherwise, with     *)
(* offset 0 when the given offset is negative and the given offset         *)
(* otherwise, and with the user_id and service_name filters as given.      *)
ExpectedListCall(userID, serviceName, limit, offset) ==
    [fn |-> "List", userID |-> userID, serviceName |-> serviceName,
     limit |-> IF limit > 0 THEN limit ELSE 20,
     offset |-> IF offset >= 0 THEN offset ELSE 0]

SomeOrder(rows, userID, serviceName) ==
    CHOOSE ordered \in ListOrders(rows, userID, serviceName) : TRUE

C6_ListDefaults ==
    /\ \A userID \in OptUsers, serviceName \in OptNames :
          LET ordered == SomeOrder(subscriptions, userID, serviceName)
          IN \A limit \in Limits, offset \in Offsets :
                subscriptionService_List(subscriptions, userID, serviceName, limit,
                                         offset, ordered, NoError).calls
                   = <<ExpectedListCall(userID, serviceName, limit, offset)>>
    /\ last.op = "List" =>
          last.calls = <<ExpectedListCall(last.in.userID, last.in.serviceName,
                                          last.in.limit, last.in.offset)>>

C6_Witness ==
    /\ last.op = "List"
    /\ last.in.limit = 0 /\ last.in.offset = -1
    /\ last.calls[1].limit = 20 /\ last.calls[1].offset = 0
    /\ last.in.userID = Some(1)
    /\ DOMAIN last.out = 1 .. 2

(* C10: a GET, a PUT with a valid body and a DELETE whose path carries a   *)
(* well-formed id that matches no stored record (the service answers       *)
(* ErrNotFound) are each answered with status 404.                         *)
C10_UnknownIdIs404 ==
    (/\ last.op \in {"GET", "PUT", "DELETE"}
     /\ last.in.id # NULL
     /\ last.err = ErrNotFound)
    => last.status = StatusNotFound

(* A PUT with a valid body on an id that was deleted is answered 500.      *)
C10_Witness ==
    /\ last.op = "PUT"
    /\ last.in.id # NULL
    /\ last.in.id[1] \in deleted
    /\ last.in.body \in ValidBodies
    /\ last.err = ErrNotFound
    /\ last.status = StatusInternalServerError

(* C11: a POST or PUT whose body passes the field validation and that the  *)
(* gate of the service refuses (date range or price), and a summary that   *)
(* the service refuses for its period, are answered with status 400.       *)
C11_RuleViolationIs400 ==
    /\ (last.op \in {"POST", "PUT"} /\ last.err \in {ErrDateRange, ErrPrice}) =>
          last.status = StatusBadRequest
    /\ (last.op = "SUMMARY" /\ last.err = ErrInvalidPeriod) =>
          last.status = StatusBadRequest

(* A POST whose end_date is before its start_date is answered 500.         *)
C11_Witness ==
    /\ last.op = "POST"
    /\ last.in.body # NULL
    /\ Validate_Struct(last.in.body) = {}
    /\ last.err = ErrDateRange
    /\ last.status = StatusInternalServerError

(* C12: a request of any of the six routes whose storage round trip fails  *)
(* (with an error other than ErrNotFound) is answered with status 500.     *)
C12_StorageFailureIs500 ==
    (/\ last.op \in {"POST", "GET", "PUT", "DELETE", "LIST", "SUMMARY"}
     /\ last.err = ErrConn)
    => last.status = StatusInternalServerError

(* A summary whose storage round trip fails is answered 400.               *)
C12_Witness ==
    /\ last.op = "SUMMARY"
    /\ last.err = ErrConn
    /\ Len(last.calls) = 1
    /\ last.status = StatusBadRequest

(* C13: the response to a request whose storage round trip fails is the    *)
(* same whatever the text of the storage error is.                         *)
StorageFailures == {ErrConn, ErrTimeout}

C13_StorageErrorBodyGeneric ==
    /\ (last.op = "POST" /\ last.err \in StorageFailures) =>
          \A e \in StorageFailures :
             LET other == SubscriptionHandler_Create(last.before, last.in.body,
                                                     FreshId, now, e)
             IN other.status = last.status /\ other.body = last.out
    /\ (last.op = "PUT" /\ last.err \in StorageFailures) =>
          \A e \in StorageFailures :
             LET other == SubscriptionHandler_Update(last.before, last.in.id,
                                                     last.in.body, now, e)
             IN other.status = last.status /\ other.body = last.out
    /\ (last.op = "DELETE" /\ last.err \in StorageFailures) =>
          \A e \in StorageFailures :
             LET other == SubscriptionHandler_Delete(last.before, last.in.id, e)
             IN other.status = last.status /\ other.body = last.out

(* The body of a 500 answer to a POST is the text of the storage error.    *)
C13_Witness ==
    /\ last.op = "POST"
    /\ last.status = StatusInternalServerError
    /\ last.err = ErrConn
    /\ last.out = errorResponse(ErrConn)

(* C14: a POST or PUT that fails at the parsing of the id, the decoding of *)
(* the body, the field validation or the conversion of the dates is        *)
(* answered 400, invokes neither the service nor the repository and leaves *)
(* the table as it was.                                                    *)
FailsBeforeService(body) ==
    \/ body = NULL
    \/ Validate_Struct(body) # {}
    \/ ToDomain(body).err # NoError

ProbeBodies ==
    HttpBodies \cup
    {CreateSubscriptionRequest(Yandex, 2, 1, Str_01_2025, Some(<<>>)),
     CreateSubscriptionRequest(Yandex, -1, 1, Str_01_2025, NULL),
     CreateSubscriptionRequest(Yandex, 2, Nil, Str_01_2025, NULL),
     CreateSubscriptionRequest(<<>>, 2, 1, <<>>, NULL)}

IsRefusal(res) ==
    /\ res.status = StatusBadRequest
    /\ res.service = <<>>
    /\ res.calls = <<>>
    /\ res.rows = subscriptions

C14_InvalidRequestTouchesNothing ==
    /\ \A body \in ProbeBodies, dbErr \in DbErrs :
          /\ FailsBeforeService(body) =>
                IsRefusal(SubscriptionHandler_Create(subscriptions, body, FreshId,
                                                     now, dbErr))
          /\ \A idStr \in PathIds :
                (idStr = NULL \/ FailsBeforeService(body)) =>
                   IsRefusal(SubscriptionHandler_Update(subscriptions, idStr, body,
                                                        now, dbErr))
    /\ (/\ last.op \in {"POST", "PUT"}
        /\ \/ (last.op = "PUT" /\ last.in.id = NULL)
           \/ FailsBeforeService(last.in.body)) =>
          /\ last.status = StatusBadRequest
          /\ last.service = <<>>
          /\ last.calls = <<>>
          /\ subscriptions = last.before

(* A PUT on a stored record with a body the validation refuses.            *)
C14_Witness ==
    /\ last.op = "PUT"
    /\ last.in.id # NULL
    /\ last.in.id[1] \in RowIds(subscriptions)
    /\ last.in.body # NULL
    /\ Validate_Struct(last.in.body) # {}
    /\ last.status = StatusBadRequest
    /\ subscriptions = last.before

(* C15: an Update or a Delete on an id that no row has returns ErrNotFound *)
(* and leaves the table as it is; the rows of the table are those of the   *)
(* ids that were created and not deleted, and an Update succeeds only on   *)
(* such an id.                                                             *)
C15_AbsentIdIsNotFound ==
    /\ \A id \in AnyIds \ RowIds(subscriptions) :
          /\ \A sub \in WithID(GateSubs, id) :
                LET r == subscriptionRepo_Update(subscriptions, sub, now, NoError)
                    u == subscriptionService_Update(subscriptions, sub, now, NoError)
                IN /\ r.err = ErrNotFound /\ r.rows = subscriptions
                   /\ u.rows = subscriptions
                   /\ u.calls # <<>> => u.err = ErrNotFound
          /\ LET r == subscriptionRepo_Delete(subscriptions, id, NoError)
                 d == subscriptionService_Delete(subscriptions, id, NoError)
             IN /\ r.err = ErrNotFound /\ r.rows = subscriptions
                /\ d.err = ErrNotFound /\ d.rows = subscriptions
    /\ RowIds(subscriptions) = DOMAIN submitted
    /\ (last.op = "Update" /\ last.err = NoError) =>
          last.in.ID \in RowIds(subscriptions)
    /\ (last.op = "Delete" /\ last.err = NoError) => last.in \in deleted

(* An Update on an id that was never created, beside a stored record.      *)
C15_Witness ==
    /\ last.op = "Update"
    /\ last.err = ErrNotFound
    /\ last.in.ID \notin issued
    /\ subscriptions # {}

(* C16: when a concurrent Update (that passes the gate) and Delete of one  *)
(* stored id have both returned and the storage did not fail, Delete has   *)
(* succeeded, the record is absent, and either the UPDATE ran first and    *)
(* Update succeeded or the DELETE ran first and Update returned            *)
(* ErrNotFound; an Update never succeeds after the DELETE has run.         *)
C16_UpdateDeleteRace ==
    LET u == inflight.update
        d == inflight.delete
    IN /\ (/\ u.pc = "done" /\ d.pc = "done"
           /\ UpdateGateErr(u.sub) = NoError
           /\ u.err # ErrConn /\ d.err # ErrConn) =>
             /\ d.err = NoError
             /\ d.id \notin RowIds(subscriptions)
             /\ \/ inflight.order = <<"update", "delete">> /\ u.err = NoError
                \/ inflight.order = <<"delete", "update">> /\ u.err = ErrNotFound
       /\ (/\ u.pc = "done"
           /\ UpdateGateErr(u.sub) = NoError
           /\ u.err = NoError) =>
             inflight.order[1] = "update"

(* The DELETE ran between the gate of Update and its UPDATE.               *)
C16_Witness ==
    /\ inflight.update.pc = "done"
    /\ inflight.delete.pc = "done"
    /\ inflight.order = <<"delete", "update">>
    /\ inflight.update.err = ErrNotFound
    /\ inflight.delete.err = NoError
    /\ subscriptions # {}

(***************************************************************************)
(* The rule of the fields of a request: a name of two characters or more,  *)
(* a price that is not negative, a user id, a start date of the layout,    *)
(* and an end date that is absent or of the layout.                        *)
(***************************************************************************)
FieldRule(req) ==
    /\ Len(req.ServiceName) >= 2
    /\ req.Price >= 0
    /\ req.UserID # Nil
    /\ validateMonthYear(req.StartDate)
    /\ req.EndDate = NULL \/ validateMonthYear(req.EndDate[1])

(* C17: the field validation of every decoded POST/PUT body accepts it     *)
(* exactly when the body satisfies the rule of the fields, a price of 0    *)
(* included.                                                               *)
C17_ValidationIsFieldRule ==
    (last.op \in {"POST", "PUT"} /\ last.in.body # NULL) =>
        ((Validate_Struct(last.in.body) = {}) <=> FieldRule(last.in.body))

(* A POST whose body satisfies the rule with price 0 was refused.          *)
C17_Witness ==
    /\ last.op = "POST"
    /\ last.in.body # NULL
    /\ FieldRule(last.in.body)
    /\ last.in.body.Price = 0
    /\ Validate_Struct(last.in.body) = {<<"Price", "required">>}
    /\ last.status = StatusBadRequest
    /\ last.service = <<>>

(***************************************************************************)
(* SpecDates: a date string of a request is parsed as ToDomain parses it   *)
(* and the time is formatted as ToResponse formats it.                     *)
(***************************************************************************)
MonthTens == {"0", "1", "2"}
Separators == {"-", "/", "."}
YearStrings == {<<"2", "0", "2", "5">>, <<"1", "9", "9", "9">>, <<"0", "0", "0", "1">>}

(* Two digits, a separator, four digits; and strings of other shapes.      *)
ShapedStrings ==
    {<<a, b, sep>> \o y : a \in MonthTens, b \in {DigitChars[i] : i \in DOMAIN DigitChars},
                          sep \in Separators, y \in YearStrings}

OtherStrings ==
    { <<>>,
      Str_2025_01,
      <<"2", "0", "2", "5", "-", "1", "2">>,
      <<"0", "1", "-", "2", "0", "2">>,
      <<"1", "2", "-", "9", "9", "9">>,
      <<"0", "1", "-", "2", "0", "2", "5", "5">>,
      <<"1", "-", "2", "0", "2", "5">>,
      <<"0", "0", "1", "-", "2", "0", "2", "5">>,
      <<"0", "1", "2", "0", "2", "5">>,
      <<"0", "1", "-", "2", "0", "a", "5">>,
      <<"a", "b", "-", "2", "0", "2", "5">>,
      <<"0", "1", "-", "2", "0", "2", "5", " ">>,
      <<" ", "0", "1", "-", "2", "0", "2", "5">>,
      <<"0", "1", "-", "0", "1", "-", "2", "0", "2", "5">>,
      <<"J", "a", "n", "-", "2", "0", "2", "5">> }

DateStrings == ShapedStrings \cup OtherStrings

InitDates ==
    /\ subscriptions = {}
    /\ issued = {}
    /\ now = 1
    /\ deleted = {}
    /\ submitted = <<>>
    /\ inflight = Idle
    /\ \E s \in DateStrings : last = [op |-> "input", in |-> s]

ParseDate ==
    /\ last.op = "input"
    /\ last' = [op |-> "parsed", in |-> last.in,
                err |-> time_Parse(last.in).err, t |-> time_Parse(last.in).t]
    /\ UNCHANGED <<subscriptions, issued, now, deleted, submitted, inflight>>

FormatDate ==
    /\ last.op = "parsed"
    /\ last.err = NoError
    /\ last' = [op |-> "formatted", in |-> last.in, err |-> NoError, t |-> last.t,
                out |-> time_Format(last.t)]
    /\ UNCHANGED <<subscriptions, issued, now, deleted, submitted, inflight>>

NextDates == ParseDate \/ FormatDate

SpecDates == InitDates /\ [][NextDates]_vars

(* The strings MM-YYYY: one of the twelve months, a dash, four digits.     *)
MonthStrings ==
    { <<"0", "1">>, <<"0", "2">>, <<"0", "3">>, <<"0", "4">>, <<"0", "5">>,
      <<"0", "6">>, <<"0", "7">>, <<"0", "8">>, <<"0", "9">>, <<"1", "0">>,
      <<"1", "1">>, <<"1", "2">> }

IsMonthYear(s) ==
    /\ Len(s) = 7
    /\ SubSeq(s, 1, 2) \in MonthStrings
    /\ s[3] = "-"
    /\ \A i \in 4 .. 7 : IsDigit(s[i])

(* C18: a string parses exactly when it is MM-YYYY with month 01 to 12;    *)
(* the parsed time is the first day of that month, and formatting it gives *)
(* the string back.                                                        *)
C18_DateRoundTrip ==
    /\ last.op \in {"parsed", "formatted"} =>
          /\ (last.err = NoError) <=> IsMonthYear(last.in)
          /\ last.err = NoError =>
                /\ DayOf(last.t) = 1
                /\ MonthOf(last.t) = DigitOf(last.in[1]) * 10 + DigitOf(last.in[2])
    /\ last.op = "formatted" => last.out = last.in

(* "12-1999" was parsed and formatted back.                                *)
C18_Witness ==
    /\ last.op = "formatted"
    /\ last.in = <<"1", "2", "-", "1", "9", "9", "9">>
    /\ last.out = last.in
    /\ DayOf(last.t) = 1

(***************************************************************************)
(* Values of the from and to parameters of a summary: absent, of the       *)
(* layout, year first, month 13, not a date.                               *)
(***************************************************************************)
PeriodStrings ==
    {<<>>, Str_01_2025, Str_03_2025, Str_2025_01, Str_13_2025, NotAUuid}

NoPeriod(fromStr, toStr) == ~IsMonthYear(fromStr) \/ ~IsMonthYear(toStr)

(* C19: a summary whose from or to is absent, empty or not MM-YYYY is      *)
(* answered 400; no service method and no repository method is invoked     *)
(* (so no period is substituted), and the table is left as it was.         *)
C19_SummaryNeedsPeriod ==
    /\ \A fromStr \in PeriodStrings, toStr \in PeriodStrings :
          NoPeriod(fromStr, toStr) =>
             \A uid \in {<<>>, NotAUuid}, sn \in {<<>>, Yandex}, dbErr \in DbErrs :
                LET res == SubscriptionHandler_Summary(subscriptions, fromStr, toStr,
                                                       uid, sn, dbErr)
                IN /\ res.status = StatusBadRequest
                   /\ res.service = <<>>
                   /\ res.calls = <<>>
                   /\ res.rows = subscriptions
    /\ (last.op = "SUMMARY" /\ NoPeriod(last.in.body.from, last.in.body.to)) =>
          /\ last.status = StatusBadRequest
          /\ last.service = <<>>
          /\ last.calls = <<>>
          /\ subscriptions = last.before

(* A summary without from was refused while the table had a row its        *)
(* default period would have summed.                                       *)
C19_Witness ==
    /\ last.op = "SUMMARY"
    /\ last.in.body.from = <<>>
    /\ IsMonthYear(last.in.body.to)
    /\ last.status = StatusBadRequest
    /\ last.out = errorResponse("from and to are required")
    /\ last.service = <<>>
    /\ subscriptions # {}

(***************************************************************************)
(* SpecList: the repository under inserts made at different times and List *)
(* calls with filters and pages.                                           *)
(***************************************************************************)
MaxClock == 2
MaxPage == 2

Tick ==
    /\ now < MaxClock
    /\ now' = now + 1
    /\ UNCHANGED <<subscriptions, issued, last, deleted, submitted, inflight>>

RepoList(userID, serviceName, limit, offset, dbErr) ==
    \E ordered \in ListOrders(subscriptions, userID, serviceName) :
        LET res == FromRepo(subscriptionRepo_List(subscriptions, userID, serviceName,
                                                  limit, offset, ordered, dbErr),
                            [fn |-> "List"])
        IN /\ last' = Returned("RepoList",
                               [userID |-> userID, serviceName |-> serviceName,
                                limit |-> limit, offset |-> offset], res)
           /\ AfterRead(res)
           /\ UNCHANGED inflight

ListSubs ==
    {Subscription(Nil, 1, "Yandex", 2, Jan, NULL),
     Subscription(Nil, 1, "Google", 2, Feb, NULL),
     Subscription(Nil, 2, "Yandex", 2, Jan, NULL)}

(* <<userID, serviceName, limit, offset, dbErr>> *)
RepoListCalls ==
    {<<NULL, NULL, 2, 0, NoError>>,
     <<NULL, NULL, 1, 1, NoError>>,
     <<NULL, Some("Yandex"), MaxPage, 0, NoError>>,
     <<NULL, Some("Yandex"), 1, 0, NoError>>,
     <<Some(1), NULL, MaxPage, 1, NoError>>,
     <<Some(2), Some("Yandex"), 0, 0, NoError>>,
     <<NULL, NULL, 2, 0, ErrConn>>}

NextList ==
    \/ \E sub \in ListSubs : ServiceCreate(sub, NoError)
    \/ Tick
    \/ \E c \in RepoListCalls : RepoList(c[1], c[2], c[3], c[4], c[5])

SpecList == Init /\ [][NextList]_vars

(* The rows a List with these filters is about: a filter that is present   *)
(* must be equal to the row's column.                                      *)
ListMatching(rows, userID, serviceName) ==
    {r \in rows : /\ userID # NULL => r.user_id = userID[1]
                  /\ serviceName # NULL => r.service_name = serviceName[1]}

PageLen(n, limit, offset) ==
    IF n <= offset THEN 0 ELSE IF n - offset < limit THEN n - offset ELSE limit

(* out is the page (limit, offset) of the rows matching, most recent       *)
(* first: the entry at place i has fewer than offset + i rows more recent  *)
(* than it, and at least offset + i rows as recent as it.                  *)
IsPageOf(out, matching, limit, offset) ==
    /\ DOMAIN out = 1 .. PageLen(Cardinality(matching), limit, offset)
    /\ \A i \in DOMAIN out : \E r \in matching : out[i] = Scan(r)
    /\ \A i, j \in DOMAIN out : i # j => out[i].ID # out[j].ID
    /\ \A i, j \in DOMAIN out : i < j => out[i].CreatedAt >= out[j].CreatedAt
    /\ \A i \in DOMAIN out :
          /\ Cardinality({r \in matching : r.created_at > out[i].CreatedAt}) < offset + i
          /\ Cardinality({r \in matching : r.created_at >= out[i].CreatedAt}) >= offset + i

(* C20: repository List returns the page (limit, offset) of exactly the    *)
(* rows equal to the filters that are present, ordered by created_at with  *)
(* the most recent first; with service_name alone, the rows of that name   *)
(* of all users.                                                           *)
C20_ListIsFilteredOrderedPage ==
    /\ \A userID \in OptUsers, serviceName \in OptNames :
          \A limit \in 0 .. MaxPage, offset \in 0 .. MaxPage :
             \A ordered \in ListOrders(subscriptions, userID, serviceName) :
                LET res == subscriptionRepo_List(subscriptions, userID, serviceName,
                                                 limit, offset, ordered, NoError)
                IN /\ res.err = NoError
                   /\ res.rows = subscriptions
                   /\ IsPageOf(res.out, ListMatching(subscriptions, userID, serviceName),
                               limit, offset)
    /\ (last.op = "RepoList" /\ last.err = NoError) =>
          /\ IsPageOf(last.out,
                      ListMatching(subscriptions, last.in.userID, last.in.serviceName),
                      last.in.limit, last.in.offset)
          /\ (/\ last.in.userID = NULL /\ last.in.serviceName # NULL
              /\ last.in.offset = 0
              /\ last.in.limit >= Cardinality(subscriptions)) =>
                {last.out[i].ID : i \in DOMAIN last.out}
                   = {r.id : r \in {x \in subscriptions :
                                       x.service_name = last.in.serviceName[1]}}

(* A List by service_name alone returned the rows of two users, the one    *)
(* created later first.                                                    *)
C20_Witness ==
    /\ last.op = "RepoList"
    /\ last.err = NoError
    /\ last.in.userID = NULL
    /\ last.in.serviceName = Some("Yandex")
    /\ DOMAIN last.out = 1 .. 2
    /\ last.out[1].UserID # last.out[2].UserID
    /\ last.out[1].CreatedAt > last.out[2].CreatedAt

(***************************************************************************)
(* SpecCancel: a request is served while its client may go away.  The      *)
(* handler hands a context to the service, the service hands the context   *)
(* it got to the repository and the repository to the pool; the pool       *)
(* abandons a call whose context is done and returns the context's error.  *)
(* handler.go holds two List handlers, one handing r.Context() and one     *)
(* handing context.Background().                                           *)
(***************************************************************************)
ErrCanceled == "context canceled"
RequestContext == "r.Context()"
BackgroundContext == "context.Background()"

ListContexts == {BackgroundContext, RequestContext}

HandlerContext(op, listCtx) == IF op = "LIST" THEN listCtx ELSE RequestContext

StorageContext(ctx) == ctx

ContextDone(ctx, cancelled) == ctx = RequestContext /\ cancelled

ServedRequests ==
    {[op |-> "POST", id |-> NULL, body |-> b, query |-> NULL] : b \in ValidBodies}
    \cup {[op |-> "PUT", id |-> Some(i), body |-> b, query |-> NULL] :
             i \in Ids, b \in ValidBodies}
    \cup {[op |-> o, id |-> Some(i), body |-> NULL, query |-> NULL] :
             o \in {"GET", "DELETE"}, i \in Ids}
    \cup {[op |-> "LIST", id |-> NULL, body |-> NULL,
           query |-> <<<<>>, <<>>, <<>>, <<>>>>],
          [op |-> "SUMMARY", id |-> NULL, body |-> NULL,
           query |-> <<Str_01_2025, Str_03_2025, <<>>, <<>>>>]}

Serve(req, listCtx) ==
    /\ inflight = Idle
    /\ inflight' = [pc |-> "storage", req |-> req,
                    ctx |-> StorageContext(HandlerContext(req.op, listCtx)),
                    cancelled |-> FALSE]
    /\ UNCHANGED <<subscriptions, issued, now, last, deleted, submitted>>

CancelRequest ==
    /\ inflight # Idle
    /\ inflight.pc = "storage"
    /\ ~inflight.cancelled
    /\ inflight' = [inflight EXCEPT !.cancelled = TRUE]
    /\ UNCHANGED <<subscriptions, issued, now, last, deleted, submitted>>

StorageReturns ==
    /\ inflight # Idle
    /\ inflight.pc = "storage"
    /\ inflight' = [inflight EXCEPT !.pc = "done"]
    /\ LET req == inflight.req
           dbErr == IF ContextDone(inflight.ctx, inflight.cancelled)
                    THEN ErrCanceled ELSE NoError
       IN \/ req.op = "POST" /\ CreateAnswered(req.body, dbErr)
          \/ req.op = "GET" /\ GetAnswered(req.id, dbErr)
          \/ req.op = "PUT" /\ UpdateAnswered(req.id, req.body, dbErr)
          \/ req.op = "DELETE" /\ DeleteAnswered(req.id, dbErr)
          \/ req.op = "LIST" /\ ListAnswered(req.query[1], req.query[2],
                                             req.query[3], req.query[4], dbErr)
          \/ req.op = "SUMMARY" /\ SummaryAnswered(req.query[1], req.query[2],
                                                   req.query[3], req.query[4], dbErr)

Respond ==
    /\ inflight # Idle
    /\ inflight.pc = "done"
    /\ inflight' = Idle
    /\ UNCHANGED <<subscriptions, issued, now, last, deleted, submitted>>

NextCancel ==
    \/ \E req \in ServedRequests, listCtx \in ListContexts : Serve(req, listCtx)
    \/ CancelRequest
    \/ StorageReturns
    \/ Respond

SpecCancel == Init /\ [][NextCancel]_vars

(* C21: the context of the storage call of every handler is the request's  *)
(* context: a request cancelled while its storage call is in flight has    *)
(* that call cancelled, returning the context's error.                     *)
C21_RequestContextReachesStorage ==
    inflight # Idle =>
        /\ inflight.ctx = RequestContext
        /\ (inflight.pc = "done" /\ inflight.cancelled) => last.err = ErrCanceled

(* A list request was cancelled while its query ran; the query ran to      *)
(* completion and the list was written.                                    *)
C21_Witness ==
    /\ inflight # Idle
    /\ inflight.pc = "done"
    /\ inflight.req.op = "LIST"
    /\ inflight.cancelled
    /\ inflight.ctx = BackgroundContext
    /\ last.op = "LIST"
    /\ last.err = NoError
    /\ last.status = StatusOK
    /\ subscriptions # {}

(***************************************************************************)
(* SpecService: the service under calls of all six methods.                *)
(***************************************************************************)
NextService ==
    \/ \E sub \in NewSubs, dbErr \in DbErrs : ServiceCreate(sub, dbErr)
    \/ \E id \in Ids, dbErr \in DbErrs : ServiceGet(id, dbErr)
    \/ \E id \in Ids, dbErr \in DbErrs :
          \E sub \in WithID(NewSubs, id) : ServiceUpdate(sub, dbErr)
    \/ \E id \in Ids, dbErr \in DbErrs : ServiceDelete(id, dbErr)
    \/ \E c \in ListCalls : ServiceList(c[1], c[2], c[3], c[4], c[5])
    \/ \E c \in AggregateCalls : ServiceAggregate(c[1], c[2], c[3], c[4], c[5])

SpecService == Init /\ [][NextService]_vars

(* What one invocation did with the repository: no call when the gate      *)
(* refuses, one call otherwise, and the error of that call returned.       *)
OneCallOrNone(res, refused, dbErr) ==
    /\ Len(res.calls) <= 1
    /\ refused => (res.calls = <<>> /\ res.err # NoError)
    /\ ~refused => Len(res.calls) = 1
    /\ (~refused /\ dbErr # NoError) => res.err = dbErr
    /\ res.err \in StorageFailures => res.rows = subscriptions

GateRefuses(sub) == sub.Price < 0 \/ EndsBeforeStart(sub)

(* C22: every invocation of a service method issues at most one repository *)
(* call, none when the gate refuses the input, and returns the error of a  *)
(* failed call as it is, without a second call.                            *)
C22_AtMostOneRepositoryCall ==
    /\ \A dbErr \in DbErrs \cup StorageFailures :
          /\ \A sub \in NewSubs :
                /\ OneCallOrNone(subscriptionService_Create(subscriptions, sub, FreshId,
                                                            now, dbErr),
                                 GateRefuses(sub), dbErr)
                /\ \A id \in Ids :
                      OneCallOrNone(subscriptionService_Update(
                                        subscriptions, [sub EXCEPT !.ID = id], now, dbErr),
                                    GateRefuses(sub), dbErr)
          /\ \A id \in Ids :
                /\ OneCallOrNone(subscriptionService_Get(subscriptions, id, dbErr),
                                 FALSE, dbErr)
                /\ OneCallOrNone(subscriptionService_Delete(subscriptions, id, dbErr),
                                 FALSE, dbErr)
          /\ \A c \in ListCalls :
                \A ordered \in ListOrders(subscriptions, c[1], c[2]) :
                   OneCallOrNone(subscriptionService_List(subscriptions, c[1], c[2],
                                                          c[3], c[4], ordered, dbErr),
                                 FALSE, dbErr)
          /\ \A c \in AggregateCalls :
                OneCallOrNone(subscriptionService_Aggregate(subscriptions, c[1], c[2],
                                                            c[3], c[4], dbErr),
                              c[3] > c[4], dbErr)
    /\ last.op \in {"Create", "Get", "Update", "Delete", "List", "Aggregate"} =>
          /\ Len(last.calls) <= 1
          /\ last.err \in StorageFailures => Len(last.calls) = 1
          /\ (last.op \in {"Create", "Update"} /\ GateRefuses(last.in)) =>
                last.calls = <<>>
          /\ (last.op = "Aggregate" /\ last.in.from > last.in.to) => last.calls = <<>>

(* A Get on a stored id whose one repository call failed.                  *)
C22_Witness ==
    /\ last.op = "Get"
    /\ last.in \in RowIds(subscriptions)
    /\ last.err = ErrConn
    /\ Len(last.calls) = 1

(***************************************************************************)
(* SpecLife: the life of the records while the clock of the database       *)
(* advances: inserts (of requests that carry no id and of one that carries *)
(* an id), updates (by the user of the record and by another user) and     *)
(* deletes.                                                                *)
(***************************************************************************)
LifeSubs ==
    {Subscription(Nil, 1, "Yandex", 2, Jan, NULL),
     Subscription(1, 2, "Google", 0, Feb, Some(Mar))}

NextLife ==
    \/ \E sub \in LifeSubs : ServiceCreate(sub, NoError)
    \/ \E id \in Ids, dbErr \in DbErrs :
          \E sub \in WithID(LifeSubs, id) : ServiceUpdate(sub, dbErr)
    \/ \E id \in Ids : ServiceDelete(id, NoError)
    \/ Tick

SpecLife == Init /\ [][NextLife]_vars

(* C23: the stored records have pairwise distinct ids; the id of a created *)
(* record is the one the database generated, whatever id the input         *)
(* carries; the ids stored are those generated and not deleted, and an     *)
(* update leaves the ids as they are.                                      *)
C23_IdsUniqueAndGenerated ==
    /\ \A r1, r2 \in subscriptions : r1.id = r2.id => r1 = r2
    /\ RowIds(subscriptions) = issued \ deleted
    /\ \A sub \in LifeSubs, carried \in AnyIds :
          LET res == subscriptionService_Create(subscriptions,
                                                [sub EXCEPT !.ID = carried],
                                                FreshId, now, NoError)
          IN (res.err = NoError /\ FreshId \notin issued) =>
                /\ res.out.ID = FreshId
                /\ RowIds(res.rows) = RowIds(subscriptions) \cup {FreshId}
                /\ subscriptions \subseteq res.rows
    /\ \A id \in AnyIds : \A sub \in WithID(LifeSubs, id) :
          RowIds(subscriptionService_Update(subscriptions, sub, now, NoError).rows)
             = RowIds(subscriptions)
    /\ (last.op = "Create" /\ last.err = NoError) =>
          /\ last.out.ID \in issued
          /\ last.out.ID # Nil

(* A request carrying the id of a stored record was created under another  *)
(* id, beside that record.                                                 *)
C23_Witness ==
    /\ last.op = "Create"
    /\ last.err = NoError
    /\ last.in.ID # Nil
    /\ last.in.ID # last.out.ID
    /\ {last.in.ID, last.out.ID} \subseteq RowIds(subscriptions)

(* What a step does to the timestamps: a record that stays keeps its       *)
(* created_at and its updated_at does not decrease, a record that appears  *)
(* has both set to the time of the insert, and after a successful update   *)
(* the updated_at of its record is the time of the update.                 *)
TimestampStep ==
    /\ \A r \in subscriptions, r2 \in subscriptions' :
          r.id = r2.id =>
             /\ r2.created_at = r.created_at
             /\ r2.updated_at >= r.updated_at
    /\ \A r2 \in subscriptions' :
          r2.id \notin RowIds(subscriptions) =>
             (r2.created_at = now /\ r2.updated_at = now)
    /\ (now' = now /\ last'.op = "Update" /\ last'.err = NoError) =>
          \A r2 \in subscriptions' :
             r2.id = last'.in.ID => r2.updated_at = now

(* C24: created_at is set when the record is created and never changes;    *)
(* every successful update sets updated_at to the time of the update; so   *)
(* updated_at >= created_at in every record and updated_at never           *)
(* decreases.                                                              *)
C24_TimestampsOfARecord ==
    /\ [](\A r \in subscriptions :
             /\ r.updated_at >= r.created_at
             /\ r.updated_at <= now)
    /\ [][TimestampStep]_vars

(* A record updated after the clock advanced past its creation.            *)
C24_Witness ==
    /\ last.op = "Update"
    /\ last.err = NoError
    /\ \E r \in subscriptions :
          /\ r.id = last.in.ID
          /\ r.updated_at = now
          /\ r.created_at < r.updated_at

(* C25: a successful update of an id leaves every other record as it was   *)
(* and keeps id, user_id and created_at of the record of that id, also     *)
(* when the request carries another user_id; service_name, price,          *)
(* start_date and end_date are those of the request.                       *)
C25_UpdateFrame ==
    /\ \A id \in RowIds(subscriptions) : \A sub \in WithID(LifeSubs, id) :
          LET res == subscriptionService_Update(subscriptions, sub, now, NoError)
              old == RowOf(subscriptions, id)
          IN res.err = NoError =>
                /\ \A r \in subscriptions : r.id # id => r \in res.rows
                /\ Cardinality(res.rows) = Cardinality(subscriptions)
                /\ \E new \in res.rows :
                      /\ new.id = id
                      /\ new.user_id = old.user_id
                      /\ new.created_at = old.created_at
                      /\ new.service_name = sub.ServiceName
                      /\ new.price = sub.Price
                      /\ new.start_date = sub.StartDate
                      /\ new.end_date = sub.EndDate
    /\ \A r \in subscriptions : r.user_id = submitted[r.id].UserID
    /\ (last.op = "Update" /\ last.err = NoError) =>
          \E r \in subscriptions :
             /\ r.id = last.in.ID
             /\ r.service_name = last.in.ServiceName
             /\ r.price = last.in.Price

(* A record of user 1 updated by a request carrying user 2, beside another *)
(* record.                                                                 *)
C25_Witness ==
    /\ last.op = "Update"
    /\ last.err = NoError
    /\ Cardinality(subscriptions) = 2
    /\ \E r \in subscriptions :
          /\ r.id = last.in.ID
          /\ r.user_id # last.in.UserID
          /\ r.service_name = last.in.ServiceName

(* C26: every Aggregate with from <= to, from = to included, passes the    *)
(* gate, invokes AggregateCost once with the user_id, service_name, from   *)
(* and to it was given and returns the repository's total and error; when  *)
(* no record contributes the total is 0 and there is no error.             *)
C26_AggregatePassesThrough ==
    /\ \A userID \in OptUsers, serviceName \in OptNames, from \in Days, to \in Days :
          from <= to =>
             /\ \A dbErr \in DbErrs :
                   LET res == subscriptionService_Aggregate(subscriptions, userID,
                                                            serviceName, from, to, dbErr)
                       repo == subscriptionRepo_AggregateCost(subscriptions, userID,
                                                              serviceName, from, to,
                                                              dbErr)
                   IN /\ res.calls = <<[fn |-> "AggregateCost", userID |-> userID,
                                        serviceName |-> serviceName,
                                        from |-> from, to |-> to]>>
                      /\ res.err = repo.err
                      /\ repo.err = NoError => res.out = repo.out
                      /\ res.rows = subscriptions
             /\ (\A r \in subscriptions :
                    ~Contributes(r, userID, serviceName, from, to)) =>
                   LET res == subscriptionService_Aggregate(subscriptions, userID,
                                                            serviceName, from, to,
                                                            NoError)
                   IN res.err = NoError /\ res.out = 0
    /\ (last.op = "Aggregate" /\ last.in.from <= last.in.to) =>
          /\ Len(last.calls) = 1
          /\ last.calls[1].from = last.in.from
          /\ last.calls[1].to = last.in.to
          /\ last.calls[1].userID = last.in.userID
          /\ last.calls[1].serviceName = last.in.serviceName

(* An Aggregate over one month that summed a stored record.                *)
C26_Witness ==
    /\ last.op = "Aggregate"
    /\ last.in.from = last.in.to
    /\ last.err = NoError
    /\ Len(last.calls) = 1
    /\ last.out > 0

(* C27: the body a successful PUT on an id writes equals, field by field,  *)
(* the body a GET on that id writes immediately afterwards.                *)
C27_PutAnswersWhatGetReads ==
    (last.op = "PUT" /\ last.status = StatusOK) =>
        LET get == SubscriptionHandler_Get(subscriptions, last.in.id, NoError)
        IN /\ get.status = StatusOK
           /\ last.out.ID = get.body.ID
           /\ last.out.ServiceName = get.body.ServiceName
           /\ last.out.Price = get.body.Price
           /\ last.out.UserID = get.body.UserID
           /\ last.out.StartDate = get.body.StartDate
           /\ last.out.EndDate = get.body.EndDate

(* A PUT carrying the user_id of another user answered 200 with that       *)
(* user_id; the record read back has the user_id it was created with and   *)
(* the other fields of the PUT.                                            *)
C27_Witness ==
    /\ last.op = "PUT"
    /\ last.status = StatusOK
    /\ LET get == SubscriptionHandler_Get(subscriptions, last.in.id, NoError)
       IN /\ get.status = StatusOK
          /\ last.out.UserID = last.in.body.UserID
          /\ get.body.UserID # last.out.UserID
          /\ get.body.ServiceName = last.out.ServiceName
          /\ get.body.Price = last.out.Price
          /\ get.body.StartDate = last.out.StartDate
          /\ get.body.EndDate = last.out.EndDate

(***************************************************************************)
(* SpecCost: subscriptions of one month, of two months and without end,    *)
(* one of them free of charge, are created and aggregated.                 *)
(***************************************************************************)
CostSubs ==
    {Subscription(Nil, 1, "Yandex", 2, Jan, NULL),
     Subscription(Nil, 1, "Google", 2, Feb, Some(Feb)),
     Subscription(Nil, 2, "Yandex", 4, Mar, NULL),
     Subscription(Nil, 2, "Google", 0, Jan, Some(Feb))}

NextCost ==
    \/ \E sub \in CostSubs : ServiceCreate(sub, NoError)
    \/ \E c \in AggregateCalls : ServiceAggregate(c[1], c[2], c[3], c[4], c[5])

SpecCost == Init /\ [][NextCost]_vars

(* The total AggregateCost returns for the rows given, without filter.     *)
CostOf(rows, from, to) ==
    subscriptionRepo_AggregateCost(rows, NULL, NULL, from, to, NoError).out

RECURSIVE SumOverIds(_, _, _, _, _)
SumOverIds(n, userID, serviceName, from, to) ==
    IF n = 0 THEN 0
    ELSE SumOverIds(n - 1, userID, serviceName, from, to)
         + CostOf({r \in subscriptions :
                      /\ r.id = n
                      /\ userID # NULL => r.user_id = userID[1]
                      /\ serviceName # NULL => r.service_name = serviceName[1]},
                  from, to)

(* C28: for a fixed table and filter, a range that contains another range  *)
(* never has the lower total; a stored subscription alone adds its price   *)
(* to a range it overlaps, whatever the number of months of the overlap,   *)
(* and nothing to a range it does not overlap, and the total of the table  *)
(* is the sum of what its subscriptions add.                               *)
C28_WiderRangeNeverLowers ==
    /\ \A userID \in OptUsers, serviceName \in OptNames :
          \A from \in Days, to \in Days :
             from <= to =>
                LET total == subscriptionRepo_AggregateCost(
                                 subscriptions, userID, serviceName, from, to, NoError).out
                IN /\ \A wfrom \in Days, wto \in Days :
                         (wfrom <= from /\ to <= wto) =>
                            subscriptionRepo_AggregateCost(
                                subscriptions, userID, serviceName, wfrom, wto,
                                NoError).out >= total
                   /\ total = SumOverIds(MaxIds, userID, serviceName, from, to)
    /\ \A r \in subscriptions : \A from \in Days, to \in Days :
          from <= to =>
             CostOf({r}, from, to) =
                (IF r.start_date <= to /\ (r.end_date = NULL \/ r.end_date[1] >= from)
                 THEN r.price ELSE 0)
    /\ (last.op = "Aggregate" /\ last.err = NoError) =>
          \A from \in Days, to \in Days :
             (last.in.from <= from /\ from <= to /\ to <= last.in.to) =>
                last.out >= subscriptionRepo_AggregateCost(
                                subscriptions, last.in.userID, last.in.serviceName,
                                from, to, NoError).out

(* January to March was aggregated over a subscription open since January  *)
(* and one of February only: both prices once, 4, where January alone      *)
(* gives 2.                                                                *)
C28_Witness ==
    /\ last.op = "Aggregate"
    /\ last.err = NoError
    /\ last.in.userID = NULL /\ last.in.serviceName = NULL
    /\ last.in.from = Jan /\ last.in.to = Mar
    /\ last.out = 4
    /\ CostOf(subscriptions, Jan, Jan) = 2
    /\ \E r \in subscriptions :
          r.start_date = Jan /\ r.end_date = NULL /\ r.price = 2
    /\ \E r \in subscriptions :
          r.start_date = Feb /\ r.end_date = Some(Feb) /\ r.price = 2

ReadRoutes == {"GET", "LIST", "SUMMARY"}

(* C29: Get, List and Aggregate write nothing: whether the call succeeds,  *)
(* is refused or meets a storage failure, the table it leaves is the table *)
(* it found, the same records with the same value in every field,          *)
(* updated_at included.                                                    *)
C29_ReadsLeaveTheTable ==
    /\ \A id \in AnyIds, dbErr \in DbErrs :
          /\ subscriptionRepo_GetByID(subscriptions, id, dbErr).rows = subscriptions
          /\ subscriptionService_Get(subscriptions, id, dbErr).rows = subscriptions
    /\ \A userID \in OptUsers, serviceName \in OptNames, dbErr \in DbErrs :
          /\ \A limit \in {-1, 0, 1, 25}, offset \in {-1, 0, 1} :
                \A ordered \in ListOrders(subscriptions, userID, serviceName) :
                   subscriptionService_List(subscriptions, userID, serviceName,
                                            limit, offset, ordered, dbErr).rows
                      = subscriptions
          /\ \A from \in Days, to \in Days :
                subscriptionService_Aggregate(subscriptions, userID, serviceName,
                                              from, to, dbErr).rows
                   = subscriptions
    /\ last.op \in ReadRoutes => subscriptions = last.before

(* A stored record was read by its id and answered 200; the table is the   *)
(* one the request found.                                                  *)
C29_Witness ==
    /\ last.op = "GET"
    /\ last.status = StatusOK
    /\ Len(last.calls) = 1
    /\ last.in.id[1] \in RowIds(subscriptions)
    /\ subscriptions = last.before

(***************************************************************************)
(* SpecBodies: a decoded request body goes through the two steps the       *)
(* Create and Update handlers take before the service is called: the       *)
(* validation of its fields, then, when no field failed, the conversion.   *)
(***************************************************************************)
EndStrings ==
    {<<>>, Str_03_2025, Str_13_2025, Str_2025_01,
     <<"0", "3", "/", "2", "0", "2", "5">>, <<"3", "-", "2", "0", "2", "5">>}

DatedBodies ==
    {CreateSubscriptionRequest(Yandex, 2, 1, start, end) :
        start \in DateStrings, end \in {NULL} \cup {Some(e) : e \in EndStrings}}

InitBodies ==
    /\ subscriptions = {}
    /\ issued = {}
    /\ now = 1
    /\ deleted = {}
    /\ submitted = <<>>
    /\ inflight = Idle
    /\ \E body \in DatedBodies : last = [op |-> "decoded", in |-> body]

ValidateBody ==
    /\ last.op = "decoded"
    /\ last' = [op |-> "validated", in |-> last.in, errs |-> Validate_Struct(last.in)]
    /\ UNCHANGED <<subscriptions, issued, now, deleted, submitted, inflight>>

ConvertBody ==
    /\ last.op = "validated"
    /\ last.errs = {}
    /\ last' = [op |-> "converted", in |-> last.in, errs |-> last.errs,
                err |-> ToDomain(last.in).err, sub |-> ToDomain(last.in).sub]
    /\ UNCHANGED <<subscriptions, issued, now, deleted, submitted, inflight>>

NextBodies == ValidateBody \/ ConvertBody

SpecBodies == InitBodies /\ [][NextBodies]_vars

DateErrors(req) ==
    {e \in Validate_Struct(req) : e[1] \in {"StartDate", "EndDate"}}

(* C30: a request body that passed the validation of its fields is         *)
(* converted without error, so neither Create nor Update answers "invalid  *)
(* date format"; the validation refuses a date field exactly when the      *)
(* conversion fails.                                                       *)
C30_ValidatedBodyConverts ==
    /\ last.op = "converted" => last.err = NoError
    /\ LET body == last.in
       IN /\ (DateErrors(body) = {}) <=> (ToDomain(body).err = NoError)
          /\ Validate_Struct(body) = {} =>
                /\ ToDomain(body).err = NoError
                /\ \A dbErr \in DbErrs :
                      /\ SubscriptionHandler_Create({}, body, 1, now, dbErr).body
                            # errorResponse("invalid date format")
                      /\ SubscriptionHandler_Update({}, Some(1), body, now, dbErr).body
                            # errorResponse("invalid date format")

(* A body with start_date 02-2025 and end_date 03-2025 passed the          *)
(* validation and was converted to the first days of the two months.       *)
C30_Witness ==
    /\ last.op = "converted"
    /\ last.errs = {}
    /\ last.in.StartDate = Str_02_2025
    /\ last.in.EndDate = Some(Str_03_2025)
    /\ last.err = NoError
    /\ last.sub.StartDate = Feb
    /\ last.sub.EndDate = Some(Mar)

====
